---- MODULE Spec2Model ----
(***************************************************************************)
(* A model of reverievis' radar-chart data pipeline:                       *)
(*   src/src/reverievis/utils/data_utils.py  create_data_structure,        *)
(*                                           normalize_minmax              *)
(*                                                                         *)
(* A pandas DataFrame is a record                                          *)
(*   [columns : the column names in column order,                          *)
(*    n       : the length of the index (the number of rows),              *)
(*    dtype   : column name -> "num" | "obj",                              *)
(*    cell    : column name -> the column's n values in row order].        *)
(* Numbers are exact rationals <<numerator, denominator>> in lowest terms  *)
(* with a positive denominator, so that the divisions of the code are      *)
(* computed and not assumed.  A Python dict is a record [keys, val] whose  *)
(* keys are in insertion order.  An Optional argument is <<>> (None) or    *)
(* <<x>>.  A call returns [kind |-> "ok", value |-> v] or raises           *)
(* [kind |-> "raise", exc, msg, arg].  The variable self is the object the *)
(* methods of a specification act on (a ChartConfig, a ChartFactory, a     *)
(* RadarChart); it is NoObject where only functions are called.            *)
(***************************************************************************)
EXTENDS Integers, Sequences, FiniteSets, TLC

VARIABLES data, call, result, self

vars == <<data, call, result, self>>

(* ------------------------------ bounds -------------------------------- *)

\* the longest index of an input dataset
MaxRows == 3

\* the most numeric cells of an input dataset (rows times numeric columns)
MaxCells == 4

\* numeric cells of the inputs are drawn from 0 .. MaxVal
MaxVal == 2

(* ----------------------------- rationals ------------------------------ *)

Abs(x) == IF x < 0 THEN -x ELSE x

RECURSIVE GCD(_, _)
GCD(a, b) == IF b = 0 THEN a ELSE GCD(b, a % b)

\* n/d in lowest terms with a positive denominator (d # 0)
Reduce(n, d) ==
    LET g == GCD(Abs(n), Abs(d))
        s == IF d < 0 THEN -1 ELSE 1
    IN  <<(s * n) \div g, (s * d) \div g>>

Rat(i) == <<i, 1>>

RSub(a, b) == Reduce(a[1] * b[2] - b[1] * a[2], a[2] * b[2])

RDiv(a, b) == Reduce(a[1] * b[2], a[2] * b[1])

RAdd(a, b) == Reduce(a[1] * b[2] + b[1] * a[2], a[2] * b[2])

RMul(a, b) == Reduce(a[1] * b[1], a[2] * b[2])

RLess(a, b) == a[1] * b[2] < b[1] * a[2]

RLeq(a, b) == a[1] * b[2] <= b[1] * a[2]

Half == <<1, 2>>

(* ----------------------------- sequences ------------------------------ *)

Range(s) == {s[i] : i \in 1 .. Len(s)}

\* the positions of s holding x
Positions(s, x) == {i \in 1 .. Len(s) : s[i] = x}

Min(S) == CHOOSE x \in S : \A y \in S : x <= y

\* s without its elements equal to x, order kept
RECURSIVE Without(_, _)
Without(s, x) ==
    IF s = <<>> THEN <<>>
    ELSE IF s[1] = x THEN Without(Tail(s), x)
    ELSE <<s[1]>> \o Without(Tail(s), x)

(* ------------------------------ results ------------------------------- *)

Ok(v) == [kind |-> "ok", value |-> v]

Raise(exc, msg, arg) == [kind |-> "raise", exc |-> exc, msg |-> msg, arg |-> arg]

NoResult == [kind |-> "none"]

NoCall == [op |-> "none"]

NoObject == [class |-> "none"]

(* ----------------------------- DataFrame ------------------------------ *)

\* column in data.columns
HasColumn(df, c) == c \in Range(df.columns)

\* DataFrame.empty: any axis of length 0
IsEmpty(df) == df.n = 0 \/ Len(df.columns) = 0

\* pd.api.types.is_numeric_dtype(df[c])
IsNumeric(df, c) == df.dtype[c] = "num"

(* ------------------------------- dict --------------------------------- *)

EmptyDict == [keys |-> <<>>, val |-> <<>>]

\* d[k] = v: a new key goes last, a key already present keeps its place
DictSet(d, k, v) ==
    IF k \in Range(d.keys)
    THEN [d EXCEPT !.val[Min(Positions(d.keys, k))] = v]
    ELSE [keys |-> Append(d.keys, k), val |-> Append(d.val, v)]

DictGet(d, k) == d.val[Min(Positions(d.keys, k))]

(* ------------------------ create_data_structure ----------------------- *)

\* Series.unique(): the distinct values in order of first appearance
RECURSIVE Unique(_)
Unique(s) ==
    IF s = <<>> THEN <<>>
    ELSE <<s[1]>> \o Unique(Without(Tail(s), s[1]))

\* data[values].to_numpy(): row i holds the cells of the columns values, in
\* the order of values
ToNumpy(df, values) ==
    [i \in 1 .. df.n |-> [j \in 1 .. Len(values) |-> df.cell[values[j]][i]]]

\* faulty variant: the last value appended instead of the first
ClosePolygonLast(val) == val \o (IF Len(val) >= 1 THEN <<val[Len(val)]>> ELSE <<>>)

\* np.append(val.copy(), val[:1]): the first value appended to close the polygon
ClosePolygon(val) == val \o SubSeq(val, 1, IF Len(val) >= 1 THEN 1 ELSE 0)

\* the first name of values, in list order, that is no column of df
FirstMissing(df, values) ==
    values[Min({i \in 1 .. Len(values) : ~HasColumn(df, values[i])})]

\* the loop over enumerate(data_values) from row idx on (idx is 1-based);
\* data_category[idx] past the end of the unique labels raises IndexError
RECURSIVE BuildRows(_, _, _, _)
BuildRows(data_category, data_values, idx, data_radar) ==
    IF idx > Len(data_values) THEN Ok(data_radar)
    ELSE IF idx > Len(data_category)
    THEN Raise("IndexError", "INDEX_OUT_OF_BOUNDS", "")
    ELSE BuildRows(data_category, data_values, idx + 1,
                   DictSet(data_radar, data_category[idx],
                           ClosePolygon(data_values[idx])))

\* faulty variant: the category column is looked up before the data is tested for
\* emptiness
ValidateBuildCategoryFirst(df, category, values) ==
    IF ~HasColumn(df, category)
    THEN <<Raise("ValueError", "COLUMN_NOT_FOUND", category)>>
    ELSE IF IsEmpty(df) THEN <<Raise("ValueError", "DATA_EMPTY", "")>>
    ELSE IF \E i \in 1 .. Len(values) : ~HasColumn(df, values[i])
    THEN <<Raise("ValueError", "COLUMN_NOT_FOUND", FirstMissing(df, values))>>
    ELSE <<>>

\* the three validations, in the order of the code; <<>> when all pass
ValidateBuild(df, category, values) ==
    IF IsEmpty(df) THEN <<Raise("ValueError", "DATA_EMPTY", "")>>
    ELSE IF ~HasColumn(df, category)
    THEN <<Raise("ValueError", "COLUMN_NOT_FOUND", category)>>
    ELSE IF \E i \in 1 .. Len(values) : ~HasColumn(df, values[i])
    THEN <<Raise("ValueError", "COLUMN_NOT_FOUND", FirstMissing(df, values))>>
    ELSE <<>>

create_data_structure(df, category, values) ==
    IF ValidateBuild(df, category, values) # <<>>
    THEN ValidateBuild(df, category, values)[1]
    ELSE BuildRows(Unique(df.cell[category]), ToNumpy(df, values), 1, EmptyDict)

(* -------------------------- normalize_minmax -------------------------- *)

\* value.drop(category, axis=1): the other columns, in column order
ValueColumns(df, category) == Without(df.columns, category)

\* faulty variant: the last non-numeric column is reported
LastNonNumeric(df, cols) ==
    cols[CHOOSE i \in 1 .. Len(cols) :
            /\ ~IsNumeric(df, cols[i])
            /\ \A k \in 1 .. Len(cols) : ~IsNumeric(df, cols[k]) => k <= i]

\* the first of cols, in order, whose dtype is not numeric
FirstNonNumeric(df, cols) ==
    cols[Min({i \in 1 .. Len(cols) : ~IsNumeric(df, cols[i])})]

\* vmin >= vmax
InvalidRange(vmin, vmax) == RLeq(vmax, vmin)

\* Series.min() and Series.max() of a non-empty numeric column
ColMin(s) == CHOOSE x \in Range(s) : \A y \in Range(s) : RLeq(x, y)

ColMax(s) == CHOOSE x \in Range(s) : \A y \in Range(s) : RLeq(y, x)

\* faulty variant: the shifted value is divided by the upper end
RescaleByUpper(s, lo, hi) == [i \in 1 .. Len(s) |-> RDiv(RSub(s[i], lo), hi)]

\* faulty variant: the lower end is not subtracted
RescaleNoShift(s, lo, hi) == [i \in 1 .. Len(s) |-> RDiv(s[i], RSub(hi, lo))]

\* (column - lo) / (hi - lo), element by element (hi # lo)
Rescale(s, lo, hi) ==
    [i \in 1 .. Len(s) |-> RDiv(RSub(s[i], lo), RSub(hi, lo))]

\* column = v: every row of the column becomes v
Fill(s, v) == [i \in 1 .. Len(s) |-> v]

\* the branch "data_minmax is not None" for column c
ScaleWithBounds(s, c, bounds) ==
    IF c \in DOMAIN bounds
    THEN IF RLess(bounds[c].min, bounds[c].max)
         THEN Rescale(s, bounds[c].min, bounds[c].max)
         ELSE Fill(s, Half)
    ELSE s

\* faulty variant: a column of equal values becomes 0
ScaleFromDataZero(s) ==
    IF Len(s) > 0 /\ RLess(ColMin(s), ColMax(s))
    THEN Rescale(s, ColMin(s), ColMax(s))
    ELSE Fill(s, Rat(0))

\* the branch of the column's own min and max (of an empty column both are
\* NaN, the comparison is false and the assignment of 0.5 fills no row)
ScaleFromData(s) ==
    IF Len(s) > 0 /\ RLess(ColMin(s), ColMax(s))
    THEN Rescale(s, ColMin(s), ColMax(s))
    ELSE Fill(s, Half)

\* faulty variant: the custom range is used only when both ends differ from (0, 1)
ScaleColumnBothDiffer(s, c, data_minmax, vmin, vmax) ==
    IF vmin # Rat(0) /\ vmax # Rat(1) THEN Rescale(s, vmin, vmax)
    ELSE IF data_minmax # <<>> THEN ScaleWithBounds(s, c, data_minmax[1])
    ELSE ScaleFromData(s)

\* the if / elif / else over the scaling rule, for column c
ScaleColumn(s, c, data_minmax, vmin, vmax) ==
    IF vmin # Rat(0) \/ vmax # Rat(1) THEN Rescale(s, vmin, vmax)
    ELSE IF data_minmax # <<>> THEN ScaleWithBounds(s, c, data_minmax[1])
    ELSE ScaleFromData(s)

\* pd.concat([data_scaled, value_scaled], axis=1): the category column, then
\* the rescaled value columns
Concat(df, category, data_minmax, vmin, vmax) ==
    LET cols == <<category>> \o ValueColumns(df, category)
    IN  [columns |-> cols, n |-> df.n,
         dtype |-> [c \in Range(cols) |->
                      IF c = category THEN df.dtype[c] ELSE "num"],
         cell |-> [c \in Range(cols) |->
                      IF c = category THEN df.cell[c]
                      ELSE ScaleColumn(df.cell[c], c, data_minmax, vmin, vmax)]]

\* faulty variant: the value columns are tested for numeric data before the range is
\* tested
NormalizeNumericFirst(df, category, data_minmax, vmin, vmax) ==
    IF ~HasColumn(df, category)
    THEN Raise("KeyError", "NOT_IN_INDEX", category)
    ELSE IF \E c \in Range(ValueColumns(df, category)) : ~IsNumeric(df, c)
    THEN Raise("ValueError", "NON_NUMERIC_COLUMN",
               FirstNonNumeric(df, ValueColumns(df, category)))
    ELSE IF InvalidRange(vmin, vmax)
    THEN Raise("ValueError", "INVALID_VMIN_VMAX", "")
    ELSE Ok(Concat(df, category, data_minmax, vmin, vmax))

normalize_minmax(df, category, data_minmax, vmin, vmax) ==
    IF InvalidRange(vmin, vmax)
    THEN Raise("ValueError", "INVALID_VMIN_VMAX", "")
    ELSE IF ~HasColumn(df, category)
    THEN Raise("KeyError", "NOT_IN_INDEX", category)
    ELSE IF \E c \in Range(ValueColumns(df, category)) : ~IsNumeric(df, c)
    THEN Raise("ValueError", "NON_NUMERIC_COLUMN",
               FirstNonNumeric(df, ValueColumns(df, category)))
    ELSE Ok(Concat(df, category, data_minmax, vmin, vmax))

\* faulty variant: the value columns are rescaled in the caller's frame
InputRescaledInPlace(df, category, data_minmax, vmin, vmax) ==
    LET r == normalize_minmax(df, category, data_minmax, vmin, vmax)
    IN  IF r.kind = "ok"
        THEN [df EXCEPT !.cell = [c \in DOMAIN df.cell |-> r.value.cell[c]]]
        ELSE df

\* the caller's frame once the call is over: value and data_scaled are copies,
\* [[category]] and drop build new frames, and the column assignments of the
\* loop write to value_scaled only, so no statement writes to data
InputAfterNormalize(df, category, data_minmax, vmin, vmax) == df

\* the caller's bounds mapping once the call is over: data_minmax is only
\* tested and read
BoundsAfterNormalize(data_minmax) == data_minmax

(* ------------------------------ get_minmax ---------------------------- *)

\* [col for col in columns if col not in data.columns]
MissingColumns(df, columns) == SelectSeq(columns, LAMBDA c : ~HasColumn(df, c))

\* [col for col in columns if not is_numeric_dtype(data[col])]
NonNumericColumns(df, columns) == SelectSeq(columns, LAMBDA c : ~IsNumeric(df, c))

\* data[columns] holds a name twice: data_subset[column] is then a frame, its
\* max() a Series of two values, and float() of it raises TypeError
Repeated(columns) ==
    \E i, j \in 1 .. Len(columns) : i # j /\ columns[i] = columns[j]

\* the loop over data_subset.columns: one entry per name, in list order
MinmaxEntries(df, columns) ==
    [keys |-> columns,
     val |-> [j \in 1 .. Len(columns) |->
                [max |-> ColMax(df.cell[columns[j]]),
                 min |-> ColMin(df.cell[columns[j]])]]]

\* faulty variant: the names are looked up before the dataset is tested for
\* emptiness
GetMinmaxMissingFirst(df, columns) ==
    IF MissingColumns(df, columns) # <<>>
    THEN Raise("ValueError", "COLUMN_MISSING", MissingColumns(df, columns))
    ELSE IF IsEmpty(df)
    THEN Raise("ValueError", "DATA_EMPTY", "")
    ELSE IF NonNumericColumns(df, columns) # <<>>
    THEN Raise("ValueError", "NON_NUMERIC_COLUMN", NonNumericColumns(df, columns))
    ELSE IF Repeated(columns)
    THEN Raise("TypeError", "SERIES_TO_FLOAT", "")
    ELSE Ok(MinmaxEntries(df, columns))

get_minmax(df, columns) ==
    IF IsEmpty(df)
    THEN Raise("ValueError", "DATA_EMPTY", "")
    ELSE IF MissingColumns(df, columns) # <<>>
    THEN Raise("ValueError", "COLUMN_MISSING", MissingColumns(df, columns))
    ELSE IF NonNumericColumns(df, columns) # <<>>
    THEN Raise("ValueError", "NON_NUMERIC_COLUMN", NonNumericColumns(df, columns))
    ELSE IF Repeated(columns)
    THEN Raise("TypeError", "SERIES_TO_FLOAT", "")
    ELSE Ok(MinmaxEntries(df, columns))

(* ----------------------------- chart_utils ---------------------------- *)

\* DefaultValues.MIN_YMAX
MIN_YMAX == 1

\* n / float(length) * 2 * pi, held as the rational q of q * pi radians
AngleOf(n, length) == RMul(RDiv(Rat(n), Rat(length)), Rat(2))

\* faulty variant: an axis count of 0 is let through
CreateAnglesFromZero(length) ==
    IF length < 0
    THEN Raise("ValueError", "LENGTH_INVALID", "")
    ELSE LET angles == [i \in 1 .. length |-> AngleOf(i - 1, length)]
         IN  Ok(angles \o SubSeq(angles, 1, IF Len(angles) >= 1 THEN 1 ELSE 0))

\* faulty variant: the factor 2 is left out
CreateAnglesHalfTurn(length) ==
    IF length < 1
    THEN Raise("ValueError", "LENGTH_INVALID", "")
    ELSE LET angles == [i \in 1 .. length |-> RDiv(Rat(i - 1), Rat(length))]
         IN  Ok(angles \o SubSeq(angles, 1, IF Len(angles) >= 1 THEN 1 ELSE 0))

\* faulty variant: the first angle is not appended
CreateAnglesOpen(length) ==
    IF length < 1
    THEN Raise("ValueError", "LENGTH_INVALID", "")
    ELSE Ok([i \in 1 .. length |-> AngleOf(i - 1, length)])

\* [n / float(length) * 2 * pi for n in range(length)], then angles[:1]
create_angles(length) ==
    IF length < 1
    THEN Raise("ValueError", "LENGTH_INVALID", "")
    ELSE LET angles == [i \in 1 .. length |-> AngleOf(i - 1, length)]
         IN  Ok(angles \o SubSeq(angles, 1, IF Len(angles) >= 1 THEN 1 ELSE 0))

\* the checks of draw_radar and the lines it plots, one per entry in
\* insertion order (colours and markers are left out)
draw_radar(data_radar, angles) ==
    IF data_radar.keys = <<>>
    THEN Raise("ValueError", "DATA_RADAR_EMPTY", "")
    ELSE IF Len(angles) < 2
    THEN Raise("ValueError", "MIN_ANGLES_REQUIRED", "")
    ELSE IF \E k \in 1 .. Len(data_radar.val) :
                Len(data_radar.val[k]) # Len(angles)
    THEN Raise("ValueError", "DATA_LENGTH_MISMATCH", "")
    ELSE Ok([k \in 1 .. Len(data_radar.keys) |->
               [label |-> data_radar.keys[k], angles |-> angles,
                values |-> data_radar.val[k]]])

\* Python's max(a, b): b when b > a, else a
RMax(a, b) == IF RLess(a, b) THEN b ELSE a

\* np.max(values) of a non-empty array
NpMax(values) ==
    CHOOSE x \in Range(values) : \A y \in Range(values) : RLeq(y, x)

\* the loop of get_ymax_lim over data.items() from entry k on
RECURSIVE YmaxLoop(_, _, _)
YmaxLoop(val, k, ymax) ==
    IF k > Len(val) THEN ymax
    ELSE IF Len(val[k]) > 0
    THEN YmaxLoop(val, k + 1, RMax(ymax, NpMax(val[k])))
    ELSE YmaxLoop(val, k + 1, ymax)

\* faulty variant: the largest radius is returned without the floor
GetYmaxLimNoFloor(d) ==
    IF d.keys = <<>>
    THEN Raise("ValueError", "DATA_EMPTY", "")
    ELSE Ok(YmaxLoop(d.val, 1, Rat(0)))

get_ymax_lim(d) ==
    IF d.keys = <<>>
    THEN Raise("ValueError", "DATA_EMPTY", "")
    ELSE Ok(RMax(YmaxLoop(d.val, 1, Rat(0)), Rat(MIN_YMAX)))

\* faulty variant: the interval is cut into num steps, the stop left out
LinspaceOpen(start, stop, num) ==
    [i \in 1 .. num |->
        RAdd(start, RMul(Rat(i - 1), RDiv(RSub(stop, start), Rat(num))))]

\* np.linspace(start, stop, num), num >= 1: num evenly spaced samples from
\* start to stop, the single sample of num = 1 being start
Linspace(start, stop, num) ==
    IF num = 1 THEN <<start>>
    ELSE [i \in 1 .. num |->
            RAdd(start, RMul(Rat(i - 1), RDiv(RSub(stop, start), Rat(num - 1))))]

\* astype(int) of a float: the fraction is dropped, towards zero
Trunc(q) == IF q[1] >= 0 THEN q[1] \div q[2] ELSE -((-q[1]) \div q[2])

Digit(d) ==
    CASE d = 0 -> "0" [] d = 1 -> "1" [] d = 2 -> "2" [] d = 3 -> "3"
      [] d = 4 -> "4" [] d = 5 -> "5" [] d = 6 -> "6" [] d = 7 -> "7"
      [] d = 8 -> "8" [] d = 9 -> "9"

\* astype(str) of an integer: its decimal digits, "-" first when negative
RECURSIVE IntToStr(_)
IntToStr(i) ==
    IF i < 0 THEN "-" \o IntToStr(-i)
    ELSE IF i < 10 THEN Digit(i)
    ELSE IntToStr(i \div 10) \o Digit(i % 10)

\* np.linspace(0, ylim_max, circle).astype(int).astype(str)
TickLabels(ticks) == [i \in 1 .. Len(ticks) |-> IntToStr(Trunc(ticks[i]))]

\* faulty variant: the tick count is tested before the axis maximum
GetYticksCircleFirst(ylim_max, circle) ==
    IF circle < 1
    THEN Raise("ValueError", "CIRCLE_COUNT_INVALID", "")
    ELSE IF RLess(ylim_max, Rat(0))
    THEN Raise("ValueError", "YLIM_MAX_INVALID", "")
    ELSE Ok(<<Linspace(Rat(0), ylim_max, circle),
              TickLabels(Linspace(Rat(0), ylim_max, circle))>>)

\* returns the pair (ticks, labels)
get_yticks(ylim_max, circle) ==
    IF RLess(ylim_max, Rat(0))
    THEN Raise("ValueError", "YLIM_MAX_INVALID", "")
    ELSE IF circle < 1
    THEN Raise("ValueError", "CIRCLE_COUNT_INVALID", "")
    ELSE Ok(<<Linspace(Rat(0), ylim_max, circle),
              TickLabels(Linspace(Rat(0), ylim_max, circle))>>)

(* ------------------------------ RadarChart ---------------------------- *)

\* DefaultValues.CIRCLE_COUNT
CIRCLE_COUNT == 5

\* _validate_columns: the category column when absent, then every absent name
\* of value_columns in list order
ValidateColumns(df, category, values) ==
    (IF HasColumn(df, category) THEN <<>> ELSE <<category>>)
        \o MissingColumns(df, values)

\* faulty variant: data_minmax is looked at before scaled
ProcessDataMinmaxFirst(df, category, values, data_minmax, scaled) ==
    LET data_norm ==
            IF data_minmax # <<>>
            THEN normalize_minmax(df, category, data_minmax, Rat(0), Rat(1))
            ELSE IF scaled # <<>>
            THEN normalize_minmax(df, category, data_minmax,
                                  scaled[1][1], scaled[1][2])
            ELSE Ok(df)
    IN  IF data_norm.kind = "raise" THEN data_norm
        ELSE create_data_structure(data_norm.value, category, values)

\* _process_data: the dataset is normalised when scaled or data_minmax is
\* given, and the series are built from the outcome
ProcessData(df, category, values, data_minmax, scaled) ==
    LET data_norm ==
            IF scaled # <<>>
            THEN normalize_minmax(df, category, data_minmax,
                                  scaled[1][1], scaled[1][2])
            ELSE IF data_minmax # <<>>
            THEN normalize_minmax(df, category, data_minmax, Rat(0), Rat(1))
            ELSE Ok(df)
    IN  IF data_norm.kind = "raise" THEN data_norm
        ELSE create_data_structure(data_norm.value, category, values)

\* Chart.__init__ with no config, theme or keyword arguments, after the
\* fields of RadarChart are set: fig and ax are None, empty data is rejected
ChartInit(df, category, values, data_minmax, scaled, processed_data) ==
    IF IsEmpty(df)
    THEN Raise("ValueError", "DATA_EMPTY", "")
    ELSE Ok([data |-> df, category_column |-> category,
             value_columns |-> values, data_minmax |-> data_minmax,
             scaled |-> scaled, show_circle |-> FALSE,
             circle_count |-> CIRCLE_COUNT,
             processed_data |-> processed_data, fig |-> <<>>, ax |-> <<>>])

\* faulty variant: the data are processed before the columns are looked up
RadarChartProcessFirst(df, category, values, data_minmax, scaled) ==
    LET processed == ProcessData(df, category, values, data_minmax, scaled)
    IN  IF processed.kind = "raise" THEN processed
        ELSE IF ValidateColumns(df, category, values) # <<>>
        THEN Raise("DataValidationError", "COLUMN_MISSING",
                   ValidateColumns(df, category, values))
        ELSE ChartInit(df, category, values, data_minmax, scaled,
                       processed.value)

\* RadarChart.__init__
RadarChart(df, category, values, data_minmax, scaled) ==
    IF ValidateColumns(df, category, values) # <<>>
    THEN Raise("DataValidationError", "COLUMN_MISSING",
               ValidateColumns(df, category, values))
    ELSE LET processed == ProcessData(df, category, values, data_minmax, scaled)
         IN  IF processed.kind = "raise" THEN processed
             ELSE ChartInit(df, category, values, data_minmax, scaled,
                            processed.value)

\* the loop of _get_ymax_limit over processed_data from entry k on; .max() of
\* an array of no elements raises ValueError
RECURSIVE PrivateYmaxLoop(_, _, _)
PrivateYmaxLoop(val, k, ymax) ==
    IF k > Len(val) THEN Ok(ymax)
    ELSE IF Len(val[k]) = 0
    THEN Raise("ValueError", "ZERO_SIZE_ARRAY", "")
    ELSE PrivateYmaxLoop(val, k + 1, RMax(ymax, NpMax(val[k])))

\* RadarChart._get_ymax_limit of a chart with this processed_data
_get_ymax_limit(processed_data) ==
    LET ymax == PrivateYmaxLoop(processed_data.val, 1, Rat(0))
    IN  IF ymax.kind = "raise" THEN ymax
        ELSE Ok(RMax(ymax.value, Rat(MIN_YMAX)))

\* np.linspace(start, stop, num) for any integer num: no samples for num = 0,
\* ValueError for a negative num
NpLinspace(start, stop, num) ==
    IF num < 0 THEN Raise("ValueError", "NEGATIVE_SAMPLES", "")
    ELSE IF num = 0 THEN Ok(<<>>)
    ELSE Ok(Linspace(start, stop, num))

\* RadarChart._get_yticks(ylim_max) of a chart with this circle_count: the
\* pair (ticks, labels)
_get_yticks(circle_count, ylim_max) ==
    LET ticks == NpLinspace(Rat(0), ylim_max, circle_count)
    IN  IF ticks.kind = "raise" THEN ticks
        ELSE Ok(<<ticks.value, TickLabels(ticks.value)>>)

\* RadarChart(data, category_column, value_columns, show_circle=...,
\* circle_count=...): the two settings are stored as given
WithCircles(chart, show_circle, circle_count) ==
    IF chart.kind = "raise" THEN chart
    ELSE Ok([chart.value EXCEPT !.show_circle = show_circle,
                                !.circle_count = circle_count])

RadarChartWith(df, category, values, show_circle, circle_count) ==
    WithCircles(RadarChart(df, category, values, <<>>, <<>>),
                show_circle, circle_count)

\* plt.figure(): a new, empty figure; pyplot numbers the figures it opens
NewFigure(chart) ==
    [num |-> IF chart.fig = <<>> THEN 1 ELSE chart.fig[1].num + 1,
     ylim |-> <<>>, yticks |-> <<>>, lines |-> <<>>, legend |-> FALSE]

\* the outcome of a step that failed with the error raised
Failed(chart, raised) == [self |-> chart, result |-> raised]

\* ax.set_yticks and ax.set_ylim: no ticks unless show_circle is set
SetTicks(chart, ylim_max, yticks) ==
    IF yticks.kind = "raise" THEN Failed(chart, yticks)
    ELSE [self |-> [chart EXCEPT
                      !.fig[1].ylim = <<ylim_max>>,
                      !.fig[1].yticks = IF chart.show_circle
                                        THEN yticks.value[1] ELSE <<>>],
          result |-> Ok("None")]

\* the y-axis limit, then the ticks for it
SetLimit(chart, ylim_max) ==
    IF ylim_max.kind = "raise" THEN Failed(chart, ylim_max)
    ELSE SetTicks(chart, ylim_max.value,
                  _get_yticks(chart.circle_count, ylim_max.value))

\* the angles of the axes, then the y axis
SetAngles(chart, angles) ==
    IF angles.kind = "raise" THEN Failed(chart, angles)
    ELSE SetLimit(chart, _get_ymax_limit(chart.processed_data))

\* _setup_polar_axes: the axis maximum and the ticks are put on the figure
SetupPolarAxes(chart) == SetAngles(chart, create_angles(Len(chart.value_columns)))

\* the lines draw_radar plots are on the figure
DrawLines(chart, drawn) ==
    IF drawn.kind = "raise" THEN Failed(chart, drawn)
    ELSE [self |-> [chart EXCEPT !.fig[1].lines = drawn.value],
          result |-> Ok("None")]

DrawWithAngles(chart, angles) ==
    IF angles.kind = "raise" THEN Failed(chart, angles)
    ELSE DrawLines(chart, draw_radar(chart.processed_data, angles.value))

\* _draw_radar_chart: one line per entry of processed_data
DrawRadarChart(chart) ==
    DrawWithAngles(chart, create_angles(Len(chart.value_columns)))

\* _apply_legend, and the axes returned
PlotLegend(drawn) ==
    IF drawn.result.kind = "raise" THEN drawn
    ELSE [self |-> [drawn.self EXCEPT !.fig[1].legend = TRUE],
          result |-> Ok("polar")]

\* _draw_radar_chart when _setup_polar_axes returned
PlotDraw(setup) ==
    IF setup.result.kind = "raise" THEN setup
    ELSE PlotLegend(DrawRadarChart(setup.self))

\* RadarChart.plot with the default config (no title, legend shown): the chart
\* after the call and its outcome; an error leaves the figure as far as it got
Plot(chart) ==
    PlotDraw(SetupPolarAxes(
        [chart EXCEPT !.fig = <<NewFigure(chart)>>, !.ax = <<"polar">>]))

\* self.fig.savefig(filename) or plt.show(): out is the figure handed over
HandOver(plotted) ==
    IF plotted.result.kind = "raise"
    THEN [self |-> plotted.self, result |-> plotted.result, out |-> <<>>]
    ELSE [self |-> plotted.self, result |-> Ok("None"), out |-> plotted.self.fig]

\* Chart.save and Chart.show: plot when there is no figure yet, then hand the
\* figure over
SaveOrShow(chart) ==
    HandOver(IF chart.fig = <<>> THEN Plot(chart)
             ELSE [self |-> chart, result |-> Ok("polar")])

\* Chart.save(filename)
Save(chart) == SaveOrShow(chart)

\* Chart.show()
Show(chart) == SaveOrShow(chart)

\* the data stored are processed
Process(chart, stored, processed) ==
    IF processed.kind = "raise" THEN Failed(stored, processed)
    ELSE [self |-> [stored EXCEPT !.processed_data = processed.value],
          result |-> Ok("None")]

\* the data stored are validated, then processed
Validate(chart, stored, missing) ==
    IF missing # <<>>
    THEN Failed(stored, Raise("DataValidationError", "COLUMN_MISSING", missing))
    ELSE Process(chart, stored,
                 ProcessData(stored.data, chart.category_column,
                             chart.value_columns, chart.data_minmax,
                             chart.scaled))

\* RadarChart.update_data: the data are stored, then validated and processed
UpdateData(chart, new_data) ==
    Validate(chart, [chart EXCEPT !.data = new_data],
             ValidateColumns(new_data, chart.category_column, chart.value_columns))

(* ------------------------------ ChartConfig --------------------------- *)

\* the dataclass fields of ChartConfig that _validate_config tests, and title
\* and show_legend for the ones it does not; to_dict stands for the methods,
\* which are attributes of the object as well
DefaultConfig ==
    [class |-> "ChartConfig",
     figure_size |-> <<16, 6>>, colors_alpha |-> <<1, 5>>,
     line_width |-> Rat(1), show_legend |-> TRUE, legend_style |-> "bottom",
     legend_col |-> 2, title |-> <<>>, marker_size |-> 3, font_size |-> 12,
     to_dict |-> "method"]

ConfigFields ==
    {"figure_size", "colors_alpha", "line_width", "show_legend", "legend_style",
     "legend_col", "title", "marker_size", "font_size"}

\* hasattr(self, key): the fields and the methods
HasAttr(key) == key \in ConfigFields \cup {"to_dict"}

\* faulty variant: the upper end of colors_alpha is not tested
ValidateConfigNoUpper(c) ==
    IF c.figure_size[1] <= 0 \/ c.figure_size[2] <= 0 THEN "INVALID_FIGURE_SIZE"
    ELSE IF ~RLeq(Rat(0), c.colors_alpha) THEN "INVALID_ALPHA"
    ELSE IF c.legend_style \notin {"bottom", "top"} THEN "INVALID_LEGEND_STYLE"
    ELSE IF c.legend_col < 1 THEN "INVALID_LEGEND_COLUMNS"
    ELSE IF c.marker_size < 0 THEN "INVALID_MARKER_SIZE"
    ELSE IF RLess(c.line_width, Rat(0)) THEN "INVALID_LINE_WIDTH"
    ELSE IF c.font_size < 1 THEN "INVALID_FONT_SIZE"
    ELSE ""

\* _validate_config: the message of the first test that fails, "" when none
ValidateConfig(c) ==
    IF c.figure_size[1] <= 0 \/ c.figure_size[2] <= 0 THEN "INVALID_FIGURE_SIZE"
    ELSE IF ~(RLeq(Rat(0), c.colors_alpha) /\ RLeq(c.colors_alpha, Rat(1)))
    THEN "INVALID_ALPHA"
    ELSE IF c.legend_style \notin {"bottom", "top"} THEN "INVALID_LEGEND_STYLE"
    ELSE IF c.legend_col < 1 THEN "INVALID_LEGEND_COLUMNS"
    ELSE IF c.marker_size < 0 THEN "INVALID_MARKER_SIZE"
    ELSE IF RLess(c.line_width, Rat(0)) THEN "INVALID_LINE_WIDTH"
    ELSE IF c.font_size < 1 THEN "INVALID_FONT_SIZE"
    ELSE ""

\* setattr(self, key, value) for the keyword arguments from position k on
RECURSIVE SetAll(_, _, _)
SetAll(c, kwargs, k) ==
    IF k > Len(kwargs) THEN c
    ELSE SetAll([c EXCEPT ![kwargs[k].key] = kwargs[k].value], kwargs, k + 1)

\* ChartConfig(**kwargs): the generated __init__ takes the fields only, then
\* __post_init__ validates
NewChartConfig(kwargs) ==
    IF \E k \in 1 .. Len(kwargs) : kwargs[k].key \notin ConfigFields
    THEN Raise("TypeError", "UNEXPECTED_KEYWORD", "")
    ELSE LET c == SetAll(DefaultConfig, kwargs, 1)
         IN  IF ValidateConfig(c) # ""
             THEN Raise("ValueError", ValidateConfig(c), "")
             ELSE Ok(c)

\* the loop of update from position k on: the object when the loop ends and
\* the name the loop stopped at (<<>> when it ran to the end)
RECURSIVE UpdateLoop(_, _, _)
UpdateLoop(c, kwargs, k) ==
    IF k > Len(kwargs) THEN [self |-> c, unknown |-> <<>>]
    ELSE IF HasAttr(kwargs[k].key)
    THEN UpdateLoop([c EXCEPT ![kwargs[k].key] = kwargs[k].value], kwargs, k + 1)
    ELSE [self |-> c, unknown |-> <<kwargs[k].key>>]

\* ChartConfig.update(**kwargs): the object after the call and its outcome
Update(c, kwargs) ==
    LET loop == UpdateLoop(c, kwargs, 1)
    IN  IF loop.unknown # <<>>
        THEN [self |-> loop.self,
              result |-> Raise("ValueError", "INVALID_CONFIG_PARAM", loop.unknown[1])]
        ELSE IF ValidateConfig(loop.self) # ""
        THEN [self |-> loop.self,
              result |-> Raise("ValueError", ValidateConfig(loop.self), "")]
        ELSE [self |-> loop.self, result |-> Ok("None")]

(* --------------------------------- Theme ------------------------------ *)

\* ColorPalette(): the palettes and the background of the default theme
DefaultColors ==
    [primary |-> <<"#FF6D60", "#6DA9E4", "#F1C40F", "#9B59B6">>,
     secondary |-> <<"#A8E6CF", "#FFD3B6", "#FFAAA5", "#DCEDC8">>,
     accent |-> <<"#FF8B94", "#FFC3A0", "#FFEAA7", "#DDA0DD">>,
     background |-> "white"]

\* _apply_default_theme: the colours of the theme called name
ThemeColors(name) ==
    CASE name = "dark" ->
            [DefaultColors EXCEPT
                !.background = "#2C3E50",
                !.primary = <<"#E74C3C", "#3498DB", "#F1C40F", "#9B59B6">>,
                !.secondary = <<"#2ECC71", "#E67E22", "#1ABC9C", "#F39C12">>]
      [] name = "minimal" ->
            [DefaultColors EXCEPT
                !.primary = <<"#000000", "#666666", "#999999", "#CCCCCC">>,
                !.secondary = <<"#F5F5F5", "#E0E0E0", "#D0D0D0", "#C0C0C0">>]
      [] name = "professional" ->
            [DefaultColors EXCEPT
                !.primary = <<"#2E86AB", "#A23B72", "#F18F01", "#C73E1D">>,
                !.secondary = <<"#6B5B95", "#88B04B", "#F7CAC9", "#92A8D1">>]
      [] OTHER -> DefaultColors

\* Theme(name)
NewTheme(name) == [class |-> "Theme", name |-> name, colors |-> ThemeColors(name)]

\* update_colors(**kwargs) from position k on: the colours when the loop ends
\* and the name the loop stopped at (<<>> when it ran to the end)
RECURSIVE ColorsLoop(_, _, _)
ColorsLoop(colors, kwargs, k) ==
    IF k > Len(kwargs) THEN [colors |-> colors, unknown |-> <<>>]
    ELSE IF kwargs[k].key \in DOMAIN colors
    THEN ColorsLoop([colors EXCEPT ![kwargs[k].key] = kwargs[k].value], kwargs, k + 1)
    ELSE [colors |-> colors, unknown |-> <<kwargs[k].key>>]

\* Theme.update_colors(**kwargs): the theme after the call and its outcome
UpdateColors(theme, kwargs) ==
    LET loop == ColorsLoop(theme.colors, kwargs, 1)
    IN  [self |-> [theme EXCEPT !.colors = loop.colors],
         result |-> IF loop.unknown # <<>>
                    THEN Raise("ValueError", "INVALID_COLOR_PARAM", loop.unknown[1])
                    ELSE Ok("None")]

\* colors[i] of a Python list: from the end when i is negative
ListItem(colors, i) ==
    IF i >= Len(colors) \/ i < -Len(colors)
    THEN Raise("IndexError", "LIST_INDEX_OUT_OF_RANGE", "")
    ELSE Ok(colors[(IF i < 0 THEN i + Len(colors) ELSE i) + 1])

\* faulty variant: the index is not reduced modulo the palette length
GetColorNoWrap(theme, index, palette) ==
    IF palette \notin {"primary", "secondary", "accent"}
    THEN Raise("ValueError", "INVALID_PALETTE", palette)
    ELSE ListItem(theme.colors[palette], index)

\* Theme.get_color(index, palette); index % 0 raises ZeroDivisionError
get_color(theme, index, palette) ==
    IF palette \notin {"primary", "secondary", "accent"}
    THEN Raise("ValueError", "INVALID_PALETTE", palette)
    ELSE IF Len(theme.colors[palette]) = 0
    THEN Raise("ZeroDivisionError", "MODULO_BY_ZERO", "")
    ELSE ListItem(theme.colors[palette], index % Len(theme.colors[palette]))

(* ------------------------------ ChartFactory -------------------------- *)

\* del d[k]: the key and its value leave the dict, the others keep their order
DictDel(d, k) ==
    LET keep == { i \in 1 .. Len(d.keys) : d.keys[i] # k }
        at(j) == CHOOSE i \in keep : Cardinality({ h \in keep : h <= i }) = j
    IN  [keys |-> [j \in 1 .. Cardinality(keep) |-> d.keys[at(j)]],
         val |-> [j \in 1 .. Cardinality(keep) |-> d.val[at(j)]]]

\* d.get(k): <<>> for None
DictGetOrNone(d, k) == IF k \in Range(d.keys) THEN <<DictGet(d, k)>> ELSE <<>>

\* str.lower() of one character of a chart type name
LowerChar(ch) ==
    CASE ch = "A" -> "a" [] ch = "B" -> "b" [] ch = "D" -> "d" [] ch = "R" -> "r"
      [] OTHER -> ch

\* str.lower(); a string is the sequence of its characters
Lower(s) == [i \in 1 .. Len(s) |-> LowerChar(s[i])]

\* ChartFactory()
NewChartFactory == [class |-> "ChartFactory", chart_registry |-> EmptyDict]

\* issubclass(chart_class, Chart): Chart itself and RadarChart
IsChartSubclass(chart_class) == chart_class \in {"Chart", "RadarChart"}

\* faulty variant: the class is stored under the name as it was given
RegisterAsGiven(factory, chart_type, chart_class) ==
    IF ~IsChartSubclass(chart_class)
    THEN [self |-> factory,
          result |-> Raise("ValueError", "MUST_INHERIT_FROM_CHART", chart_class)]
    ELSE [self |-> [factory EXCEPT !.chart_registry =
                        DictSet(@, chart_type, chart_class)],
          result |-> Ok("None")]

\* ChartFactory.register: the factory after the call and its outcome
Register(factory, chart_type, chart_class) ==
    IF ~IsChartSubclass(chart_class)
    THEN [self |-> factory,
          result |-> Raise("ValueError", "MUST_INHERIT_FROM_CHART", chart_class)]
    ELSE [self |-> [factory EXCEPT !.chart_registry =
                        DictSet(@, Lower(chart_type), chart_class)],
          result |-> Ok("None")]

\* ChartFactory.unregister
Unregister(factory, chart_type) ==
    [self |-> IF Lower(chart_type) \in Range(factory.chart_registry.keys)
              THEN [factory EXCEPT !.chart_registry = DictDel(@, Lower(chart_type))]
              ELSE factory,
     result |-> Ok("None")]

\* ChartFactory.get_available_types
get_available_types(factory) == factory.chart_registry.keys

\* ChartFactory.is_supported
is_supported(factory, chart_type) ==
    Lower(chart_type) \in Range(factory.chart_registry.keys)

\* ChartFactory.get_chart_class: <<>> for None
get_chart_class(factory, chart_type) ==
    DictGetOrNone(factory.chart_registry, Lower(chart_type))

\* chart_class(data, **kwargs) with the keyword arguments category_column and
\* value_columns: Chart is abstract and cannot be instantiated
Construct(chart_class, df, category, values) ==
    IF chart_class = "Chart"
    THEN Raise("TypeError", "ABSTRACT_CLASS", "Chart")
    ELSE RadarChart(df, category, values, <<>>, <<>>)

\* ChartTypeError(chart_type, details=...): __init__ takes chart_type and
\* available_types, so the call itself raises TypeError
ChartTypeErrorWithDetails(chart_type) ==
    Raise("TypeError", "UNEXPECTED_KEYWORD", "details")

\* ChartFactory.create
Create(factory, chart_type, df, category, values) ==
    LET chart_class == DictGetOrNone(factory.chart_registry, Lower(chart_type))
    IN  IF chart_class = <<>>
        THEN Raise("ChartTypeError", "CHART_TYPE", chart_type)
        ELSE LET chart == Construct(chart_class[1], df, category, values)
             IN  IF chart.kind = "raise"
                 THEN ChartTypeErrorWithDetails(chart_type)
                 ELSE chart

(* ------------------------------- inputs ------------------------------- *)

Labels == {"A", "B", "C"}

\* the value of a cell of a non-numeric value column
Text == <<"text">>

NumVals == {Rat(v) : v \in 0 .. MaxVal}

\* the column orders of the input datasets
Layouts ==
    { <<>>, <<"Category">>, <<"V1">>, <<"Category", "V1">>, <<"V1", "V2">>,
      <<"Category", "V1", "V2">>, <<"V2", "Category", "V1">> }

\* row i of the normaliser's inputs is labelled A, B, C, A, ...
CyclicLabels(n) ==
    {[i \in 1 .. n |-> CASE i % 3 = 1 -> "A" [] i % 3 = 2 -> "B" [] OTHER -> "C"]}

AllLabels(n) == [1 .. n -> Labels]

\* the contents column c may have in a dataset of n rows with columns cols
ColumnChoices(cols, c, n, LabelSeqs(_)) ==
    IF c \notin Range(cols) THEN {[dtype |-> "absent", cells |-> <<>>]}
    ELSE IF c = "Category"
    THEN {[dtype |-> "obj", cells |-> l] : l \in LabelSeqs(n)}
    ELSE {[dtype |-> "num", cells |-> s] : s \in [1 .. n -> NumVals]}
         \cup {[dtype |-> "obj", cells |-> [i \in 1 .. n |-> Text]]}

NumericCells(n, a, b) ==
    n * ((IF a.dtype = "num" THEN 1 ELSE 0) + (IF b.dtype = "num" THEN 1 ELSE 0))

MkFrame(cols, n, cat, a, b) ==
    LET col(c) == CASE c = "Category" -> cat [] c = "V1" -> a [] OTHER -> b
    IN  [columns |-> cols, n |-> n,
         dtype |-> [c \in Range(cols) |-> col(c).dtype],
         cell |-> [c \in Range(cols) |-> col(c).cells]]

\* df is a dataset within the bounds whose labels are drawn from LabelSeqs
InputFrame(df, LabelSeqs(_)) ==
    \E cols \in Layouts, n \in 0 .. MaxRows :
      \E cat \in ColumnChoices(cols, "Category", n, LabelSeqs),
         a \in ColumnChoices(cols, "V1", n, LabelSeqs),
         b \in ColumnChoices(cols, "V2", n, LabelSeqs) :
           /\ NumericCells(n, a, b) <= MaxCells
           /\ df = MkFrame(cols, n, cat, a, b)

CategoryArgs == {"Category"}

ValuesArgs ==
    { <<>>, <<"V1">>, <<"V2">>, <<"V1", "V2">>, <<"V2", "V1">>, <<"V1", "V1">> }

\* the (vmin, vmax) arguments: the default, two custom ranges, two invalid ones
RangeArgs == { <<0, 1>>, <<0, 2>>, <<1, 3>>, <<1, 1>>, <<2, 1>> }

\* the (min, max) a supplied bound may hold: max > min, max = min, max < min
BoundPairs == { <<0, 2>>, <<1, 2>>, <<1, 1>>, <<2, 0>> }

BoundsOver(keys) ==
    { [c \in keys |-> [min |-> Rat(p[c][1]), max |-> Rat(p[c][2])]] :
        p \in [keys -> BoundPairs] }

\* data_minmax: None, or a mapping over no, one or both value columns
MinmaxArgs ==
    { <<>> } \cup { <<b>> : b \in BoundsOver({}) \cup BoundsOver({"V1"})
                                \cup BoundsOver({"V1", "V2"}) }

(* ------------------------- the series builder ------------------------- *)

InitBuild ==
    /\ InputFrame(data, AllLabels)
    /\ call = NoCall
    /\ result = NoResult
    /\ self = NoObject

CallCreateDataStructure ==
    /\ call.op = "none"
    /\ \E category \in CategoryArgs, values \in ValuesArgs :
          /\ call' = [op |-> "create_data_structure", category |-> category,
                      values |-> values]
          /\ result' = create_data_structure(data, category, values)
    /\ UNCHANGED <<data, self>>

NextBuild == CallCreateDataStructure

SpecBuild == InitBuild /\ [][NextBuild]_vars

(* --------------------------- the normaliser --------------------------- *)

InitNorm ==
    /\ InputFrame(data, CyclicLabels)
    /\ call = NoCall
    /\ result = NoResult
    /\ self = NoObject

CallNormalizeMinmax ==
    /\ call.op = "none"
    /\ \E category \in CategoryArgs, data_minmax \in MinmaxArgs, r \in RangeArgs :
          /\ call' = [op |-> "normalize_minmax", input |-> data,
                      category |-> category, data_minmax |-> data_minmax,
                      minmax_after |-> BoundsAfterNormalize(data_minmax),
                      vmin |-> Rat(r[1]), vmax |-> Rat(r[2])]
          /\ result' = normalize_minmax(data, category, data_minmax,
                                        Rat(r[1]), Rat(r[2]))
          /\ data' = InputAfterNormalize(data, category, data_minmax,
                                         Rat(r[1]), Rat(r[2]))
    /\ UNCHANGED self

NextNorm == CallNormalizeMinmax

SpecNorm == InitNorm /\ [][NextNorm]_vars

(* ------------------------------ get_minmax ---------------------------- *)

\* the columns argument: lists of value columns, and two that name the
\* (non-numeric) category column
ColumnsArgs == ValuesArgs \cup { <<"Category">>, <<"V1", "Category">> }

InitMinmax ==
    /\ InputFrame(data, CyclicLabels)
    /\ call = NoCall
    /\ result = NoResult
    /\ self = NoObject

CallGetMinmax ==
    /\ call.op = "none"
    /\ \E columns \in ColumnsArgs :
          /\ call' = [op |-> "get_minmax", columns |-> columns]
          /\ result' = get_minmax(data, columns)
    /\ UNCHANGED <<data, self>>

NextMinmax == CallGetMinmax

SpecMinmax == InitMinmax /\ [][NextMinmax]_vars

(* normalize_minmax applied to its own output, with the arguments of the first
   call: normalize_minmax(normalize_minmax(d, ...), ...) *)
CallNormalizeAgain ==
    /\ call.op = "normalize_minmax"
    /\ result.kind = "ok"
    /\ call' = [op |-> "normalize_again", first |-> result.value,
                category |-> call.category, data_minmax |-> call.data_minmax,
                vmin |-> call.vmin, vmax |-> call.vmax]
    /\ result' = normalize_minmax(result.value, call.category,
                                  call.data_minmax, call.vmin, call.vmax)
    /\ UNCHANGED <<data, self>>

NextTwice == CallNormalizeMinmax \/ CallNormalizeAgain

SpecTwice == InitNorm /\ [][NextTwice]_vars

(* ----------------------------- chart_utils ---------------------------- *)

\* the most radii of an input series mapping, over all its entries
MaxPoints == 3

\* axis counts are drawn from -1 .. MaxAxes
MaxAxes == 4

\* tick counts are drawn from -1 .. MaxTicks
MaxTicks == 5

\* the radii of the input series: negative, fractional, and 0 .. MaxVal
Radii == {Rat(-1), Half} \cup NumVals

RadiiSeqs == UNION {[1 .. k -> Radii] : k \in 0 .. MaxPoints}

\* d is a series mapping of no, one or two entries within the bounds
InputSeries(d) ==
    \E keys \in {<<>>, <<"A">>, <<"A", "B">>} :
      \E a \in RadiiSeqs, b \in RadiiSeqs :
        /\ Len(a) + Len(b) <= MaxPoints
        /\ Len(keys) < 2 => b = <<>>
        /\ Len(keys) < 1 => a = <<>>
        /\ d = [keys |-> keys, val |-> SubSeq(<<a, b>>, 1, Len(keys))]

\* the ylim_max argument: negative, zero, fractional and whole
YmaxArgs == {Rat(-1), Rat(0), Half, Rat(1), Rat(7), <<25, 2>>}

InitAxis ==
    /\ InputSeries(data)
    /\ call = NoCall
    /\ result = NoResult
    /\ self = NoObject

CallCreateAngles ==
    /\ call.op = "none"
    /\ \E length \in -1 .. MaxAxes :
          /\ call' = [op |-> "create_angles", length |-> length]
          /\ result' = create_angles(length)
    /\ UNCHANGED <<data, self>>

CallGetYmaxLim ==
    /\ call.op = "none"
    /\ call' = [op |-> "get_ymax_lim"]
    /\ result' = get_ymax_lim(data)
    /\ UNCHANGED <<data, self>>

CallGetYticks ==
    /\ call.op = "none"
    /\ \E ylim_max \in YmaxArgs, circle \in -1 .. MaxTicks :
          /\ call' = [op |-> "get_yticks", ylim_max |-> ylim_max,
                      circle |-> circle]
          /\ result' = get_yticks(ylim_max, circle)
    /\ UNCHANGED <<data, self>>

\* _get_ymax_limit of a chart whose processed_data is the series mapping
CallPrivateGetYmaxLimit ==
    /\ call.op = "none"
    /\ call' = [op |-> "_get_ymax_limit"]
    /\ result' = _get_ymax_limit(data)
    /\ UNCHANGED <<data, self>>

\* _get_yticks of a chart with the circle_count circle
CallPrivateGetYticks ==
    /\ call.op = "none"
    /\ \E ylim_max \in YmaxArgs, circle \in -1 .. MaxTicks :
          /\ call' = [op |-> "_get_yticks", ylim_max |-> ylim_max,
                      circle |-> circle]
          /\ result' = _get_yticks(circle, ylim_max)
    /\ UNCHANGED <<data, self>>

NextAxis ==
    \/ CallCreateAngles
    \/ CallGetYmaxLim
    \/ CallGetYticks
    \/ CallPrivateGetYmaxLimit
    \/ CallPrivateGetYticks

SpecAxis == InitAxis /\ [][NextAxis]_vars

(* ------------------------------ RadarChart ---------------------------- *)

\* the labels of a chart's dataset: A, B, C, A, ... or A in every row
ChartLabels(n) == CyclicLabels(n) \cup {[i \in 1 .. n |-> "A"]}

\* data_minmax of a chart: None, or bounds for V1 with max > min or max = min
ChartMinmaxArgs ==
    { <<>>,
      <<[c \in {"V1"} |-> [min |-> Rat(0), max |-> Rat(2)]]>>,
      <<[c \in {"V1"} |-> [min |-> Rat(1), max |-> Rat(1)]]>> }

\* scaled: None, the default range, a custom range, an invalid range
ScaledArgs ==
    { <<>>, <<<<Rat(0), Rat(1)>>>>, <<<<Rat(0), Rat(2)>>>>, <<<<Rat(2), Rat(1)>>>> }

InitChart ==
    /\ InputFrame(data, ChartLabels)
    /\ call = NoCall
    /\ result = NoResult
    /\ self = NoObject

CallRadarChart ==
    /\ call.op = "none"
    /\ \E category \in CategoryArgs, values \in ValuesArgs,
          data_minmax \in ChartMinmaxArgs, scaled \in ScaledArgs :
          /\ call' = [op |-> "RadarChart", category |-> category,
                      values |-> values, data_minmax |-> data_minmax,
                      scaled |-> scaled]
          /\ result' = RadarChart(data, category, values, data_minmax, scaled)
    /\ UNCHANGED <<data, self>>

NextChart == CallRadarChart

SpecChart == InitChart /\ [][NextChart]_vars

(* ------------------------------ ChartConfig --------------------------- *)

\* the most keyword arguments of one call
MaxKw == 2

\* where no dataset is involved
NoData == [n |-> 0, columns |-> <<>>, dtype |-> <<>>, cell |-> <<>>]

Kw(key, value) == [key |-> key, value |-> value]

\* the keyword arguments of the constructor: for every tested field a value
\* that violates its constraint, and valid values
InitPairs ==
    << Kw("figure_size", <<10, 8>>), Kw("figure_size", <<-1, 5>>),
       Kw("figure_size", <<5, 0>>),
       Kw("colors_alpha", <<4, 5>>), Kw("colors_alpha", <<3, 2>>),
       Kw("colors_alpha", <<-1, 2>>),
       Kw("legend_style", "top"), Kw("legend_style", "left"),
       Kw("legend_col", 0), Kw("marker_size", -1), Kw("line_width", Rat(-1)),
       Kw("font_size", 0), Kw("title", <<"T">>), Kw("unknown", 1) >>

\* the keyword arguments of update: valid values, invalid values, a name that
\* is no attribute, the name of a method
UpdatePairs ==
    << Kw("colors_alpha", <<4, 5>>), Kw("colors_alpha", <<3, 2>>),
       Kw("font_size", 0), Kw("title", <<"T">>), Kw("legend_style", "top"),
       Kw("unknown", 1), Kw("to_dict", "value") >>

\* the keyword dicts of at most MaxKw pairs of Pairs (keys distinct), each as
\* the positions of its pairs in Pairs
KwargsChoices(Pairs) ==
    { idx \in UNION {[1 .. n -> 1 .. Len(Pairs)] : n \in 0 .. MaxKw} :
        \A i, j \in 1 .. Len(idx) : i # j => Pairs[idx[i]].key # Pairs[idx[j]].key }

KwargsAt(Pairs, idx) == [i \in 1 .. Len(idx) |-> Pairs[idx[i]]]

InitConfig ==
    /\ data = NoData
    /\ call = NoCall
    /\ result = NoResult
    /\ self = NoObject

CallChartConfig ==
    /\ self = NoObject
    /\ \E idx \in KwargsChoices(InitPairs) :
          LET kwargs == KwargsAt(InitPairs, idx)
          IN  /\ call' = [op |-> "ChartConfig", kwargs |-> kwargs,
                          before |-> self]
              /\ result' = NewChartConfig(kwargs)
              /\ self' = IF NewChartConfig(kwargs).kind = "ok"
                         THEN NewChartConfig(kwargs).value ELSE NoObject
    /\ UNCHANGED data

CallUpdate ==
    /\ self.class = "ChartConfig"
    /\ \E idx \in KwargsChoices(UpdatePairs) :
          LET kwargs == KwargsAt(UpdatePairs, idx)
          IN  /\ call' = [op |-> "update", kwargs |-> kwargs, before |-> self]
              /\ result' = Update(self, kwargs).result
              /\ self' = Update(self, kwargs).self
    /\ UNCHANGED data

NextConfig == CallChartConfig \/ CallUpdate

SpecConfig == InitConfig /\ [][NextConfig]_vars

(* --------------------------------- Theme ------------------------------ *)

\* the index argument of get_color is drawn from -MaxIndex .. MaxIndex
MaxIndex == 5

\* the four themes and a name that is none of them
ThemeArgs == {"default", "dark", "minimal", "professional", "other"}

PaletteArgs == {"primary", "secondary", "accent", "invalid_palette"}

\* the keyword arguments of update_colors: palettes of one and of three
\* colours, an empty palette, a background, a name that is no colour setting
ColorPairs ==
    << Kw("primary", <<"#111111">>), Kw("primary", <<>>),
       Kw("accent", <<"#111111", "#222222", "#333333">>),
       Kw("background", "#FF0000"), Kw("unknown", 1) >>

InitTheme ==
    /\ data = NoData
    /\ call = NoCall
    /\ result = NoResult
    /\ self = NoObject

CallTheme ==
    /\ self = NoObject
    /\ \E name \in ThemeArgs :
          /\ call' = [op |-> "Theme", name |-> name]
          /\ result' = Ok(NewTheme(name))
          /\ self' = NewTheme(name)
    /\ UNCHANGED data

CallUpdateColors ==
    /\ self.class = "Theme"
    /\ \E idx \in KwargsChoices(ColorPairs) :
          LET kwargs == KwargsAt(ColorPairs, idx)
          IN  /\ call' = [op |-> "update_colors", kwargs |-> kwargs]
              /\ result' = UpdateColors(self, kwargs).result
              /\ self' = UpdateColors(self, kwargs).self
    /\ UNCHANGED data

CallGetColor ==
    /\ self.class = "Theme"
    /\ \E index \in -MaxIndex .. MaxIndex, palette \in PaletteArgs :
          /\ call' = [op |-> "get_color", index |-> index, palette |-> palette]
          /\ result' = get_color(self, index, palette)
    /\ UNCHANGED <<data, self>>

NextTheme == CallTheme \/ CallUpdateColors \/ CallGetColor

SpecTheme == InitTheme /\ [][NextTheme]_vars

(* ------------------------------ ChartFactory -------------------------- *)

\* at most MaxOps register and unregister calls are made on a factory
MaxOps == 3

\* the chart type names: one name in two spellings, and another name
TypeArgs ==
    { <<"r", "a", "d", "a", "r">>, <<"R", "A", "D", "A", "R">>, <<"B", "a", "r">> }

\* the classes: the abstract base, the radar chart, a class that is no chart
ClassArgs == {"Chart", "RadarChart", "dict"}

\* the datasets create is called with: pd.DataFrame() and a dataset of two rows
CreateFrames ==
    { MkFrame(<<>>, 0, [dtype |-> "absent", cells |-> <<>>],
              [dtype |-> "absent", cells |-> <<>>],
              [dtype |-> "absent", cells |-> <<>>]),
      MkFrame(<<"Category", "V1">>, 2,
              [dtype |-> "obj", cells |-> <<"A", "B">>],
              [dtype |-> "num", cells |-> <<Rat(1), Rat(2)>>],
              [dtype |-> "absent", cells |-> <<>>]) }

InitFactory ==
    /\ data = NoData
    /\ call = NoCall
    /\ result = NoResult
    /\ self = NoObject

\* the register and unregister calls that returned, oldest first
Log == IF "log" \in DOMAIN call THEN call.log ELSE <<>>

CallChartFactory ==
    /\ self = NoObject
    /\ call' = [op |-> "ChartFactory", log |-> <<>>]
    /\ result' = Ok(NewChartFactory)
    /\ self' = NewChartFactory
    /\ UNCHANGED data

CallRegister ==
    /\ self.class = "ChartFactory"
    /\ Len(Log) < MaxOps
    /\ \E chart_type \in TypeArgs, chart_class \in ClassArgs :
          LET out == Register(self, chart_type, chart_class)
              this == [op |-> "register", chart_type |-> chart_type,
                       chart_class |-> chart_class]
          IN  /\ call' = this @@ [before |-> self,
                                  log |-> IF out.result.kind = "ok"
                                          THEN Append(Log, this) ELSE Log]
              /\ result' = out.result
              /\ self' = out.self
    /\ UNCHANGED data

CallUnregister ==
    /\ self.class = "ChartFactory"
    /\ Len(Log) < MaxOps
    /\ \E chart_type \in TypeArgs :
          LET out == Unregister(self, chart_type)
              this == [op |-> "unregister", chart_type |-> chart_type,
                       chart_class |-> "none"]
          IN  /\ call' = this @@ [before |-> self, log |-> Append(Log, this)]
              /\ result' = out.result
              /\ self' = out.self
    /\ UNCHANGED data

CallGetAvailableTypes ==
    /\ self.class = "ChartFactory"
    /\ call' = [op |-> "get_available_types", log |-> Log]
    /\ result' = Ok(get_available_types(self))
    /\ UNCHANGED <<data, self>>

CallIsSupported ==
    /\ self.class = "ChartFactory"
    /\ \E chart_type \in TypeArgs :
          /\ call' = [op |-> "is_supported", chart_type |-> chart_type,
                      log |-> Log]
          /\ result' = Ok(is_supported(self, chart_type))
    /\ UNCHANGED <<data, self>>

CallGetChartClass ==
    /\ self.class = "ChartFactory"
    /\ \E chart_type \in TypeArgs :
          /\ call' = [op |-> "get_chart_class", chart_type |-> chart_type,
                      log |-> Log]
          /\ result' = Ok(get_chart_class(self, chart_type))
    /\ UNCHANGED <<data, self>>

CallCreate ==
    /\ self.class = "ChartFactory"
    /\ \E chart_type \in TypeArgs, df \in CreateFrames,
          values \in {<<"V1">>, <<"V2">>} :
          /\ call' = [op |-> "create", chart_type |-> chart_type, data |-> df,
                      category |-> "Category", values |-> values, log |-> Log]
          /\ result' = Create(self, chart_type, df, "Category", values)
    /\ UNCHANGED <<data, self>>

NextFactory ==
    \/ CallChartFactory
    \/ CallRegister
    \/ CallUnregister
    \/ CallGetAvailableTypes
    \/ CallIsSupported
    \/ CallGetChartClass
    \/ CallCreate

SpecFactory == InitFactory /\ [][NextFactory]_vars

(* ------------------------- the life of a RadarChart ------------------- *)

\* plot is called at most MaxPlots times on a chart
MaxPlots == 2

\* the datasets of a chart: two rows, one row, pd.DataFrame(), no rows
LifeFrames ==
    LET absent == [dtype |-> "absent", cells |-> <<>>]
    IN  << MkFrame(<<"Category", "V1">>, 2,
                   [dtype |-> "obj", cells |-> <<"A", "B">>],
                   [dtype |-> "num", cells |-> <<Rat(1), Rat(2)>>], absent),
           MkFrame(<<"Category", "V1">>, 1,
                   [dtype |-> "obj", cells |-> <<"A">>],
                   [dtype |-> "num", cells |-> <<Rat(0)>>], absent),
           MkFrame(<<>>, 0, absent, absent, absent),
           MkFrame(<<"Category", "V1">>, 0,
                   [dtype |-> "obj", cells |-> <<>>],
                   [dtype |-> "num", cells |-> <<>>], absent) >>

\* the circle_count argument: the default, none, a negative count
CircleArgs == {CIRCLE_COUNT, 0, -1}

InitLife ==
    /\ data = NoData
    /\ call = NoCall
    /\ result = NoResult
    /\ self = NoObject

CallNewRadarChart ==
    /\ self = NoObject
    /\ \E f \in 1 .. Len(LifeFrames), show_circle \in BOOLEAN,
          circle_count \in CircleArgs :
          \E chart \in {RadarChartWith(LifeFrames[f], "Category", <<"V1">>,
                                        show_circle, circle_count)} :
             /\ call' = [op |-> "RadarChart", arg |-> f, before |-> self,
                         out |-> <<>>]
             /\ result' = chart
             /\ self' = IF chart.kind = "ok" THEN chart.value ELSE NoObject
    /\ UNCHANGED data

CallPlot ==
    /\ self # NoObject
    /\ NewFigure(self).num <= MaxPlots
    /\ \E done \in {Plot(self)} :
          /\ call' = [op |-> "plot", arg |-> 0, before |-> self, out |-> <<>>]
          /\ result' = done.result
          /\ self' = done.self
    /\ UNCHANGED data

CallSave ==
    /\ self # NoObject
    /\ \E done \in {Save(self)} :
          /\ call' = [op |-> "save", arg |-> 0, before |-> self, out |-> done.out]
          /\ result' = done.result
          /\ self' = done.self
    /\ UNCHANGED data

CallShow ==
    /\ self # NoObject
    /\ \E done \in {Show(self)} :
          /\ call' = [op |-> "show", arg |-> 0, before |-> self, out |-> done.out]
          /\ result' = done.result
          /\ self' = done.self
    /\ UNCHANGED data

CallUpdateData ==
    /\ self # NoObject
    /\ \E f \in 1 .. Len(LifeFrames) :
          \E done \in {UpdateData(self, LifeFrames[f])} :
             /\ call' = [op |-> "update_data", arg |-> f, before |-> self,
                         out |-> <<>>]
             /\ result' = done.result
             /\ self' = done.self
    /\ UNCHANGED data

NextLife ==
    \/ CallNewRadarChart
    \/ CallPlot
    \/ CallSave
    \/ CallShow
    \/ CallUpdateData

SpecLife == InitLife /\ [][NextLife]_vars

(* --------------------- claims on the series builder ------------------- *)

IsBuild == call.op = "create_data_structure"

\* the call passes the three validations
ValidBuildInput ==
    /\ IsBuild
    /\ data.n > 0
    /\ Len(data.columns) > 0
    /\ HasColumn(data, call.category)
    /\ \A j \in 1 .. Len(call.values) : HasColumn(data, call.values[j])

RowLabel(i) == data.cell[call.category][i]

DistinctLabels == \A i, j \in 1 .. data.n : i # j => RowLabel(i) # RowLabel(j)

\* row i's values in value_columns order followed by a copy of its first value
ClosedRow(i) ==
    [j \in 1 .. Len(call.values) + (IF Len(call.values) > 0 THEN 1 ELSE 0) |->
        IF j <= Len(call.values) THEN data.cell[call.values[j]][i]
        ELSE data.cell[call.values[1]][i]]

FirstRowOf(l) == Min({i \in 1 .. data.n : RowLabel(i) = l})

LastRowOf(l) == CHOOSE i \in 1 .. data.n :
                    /\ RowLabel(i) = l
                    /\ \A k \in 1 .. data.n : RowLabel(k) = l => k <= i

\* C1: for a non-empty dataset with pairwise distinct labels and a non-empty
\* list of value columns present in it, create_data_structure maps each row's
\* label to the row's values in value_columns order followed by a copy of the
\* row's first value: length len(value_columns)+1, last element = first.
C1_ClosedRows ==
    (ValidBuildInput /\ DistinctLabels /\ Len(call.values) >= 1) =>
        /\ result.kind = "ok"
        /\ \A i \in 1 .. data.n :
              /\ RowLabel(i) \in Range(result.value.keys)
              /\ LET s == DictGet(result.value, RowLabel(i))
                 IN  /\ Len(s) = Len(call.values) + 1
                     /\ \A j \in 1 .. Len(call.values) :
                           s[j] = data.cell[call.values[j]][i]
                     /\ s[Len(s)] = s[1]

C1_Witness ==
    /\ ValidBuildInput /\ DistinctLabels
    /\ data.n = 2
    /\ call.values = <<"V2", "V1">>
    /\ data.cell["V1"] = <<Rat(0), Rat(1)>>
    /\ data.cell["V2"] = <<Rat(2), Rat(1)>>
    /\ result.kind = "ok"
    /\ DictGet(result.value, RowLabel(1)) = <<Rat(2), Rat(0), Rat(2)>>

\* C2: for a dataset in which two or more rows share a label,
\* create_data_structure completes without error, the entry under a shared
\* label is the closed value sequence of the last row carrying it, and every
\* label is mapped only to values of a row that carries it.
C2_LaterRowOverwrites ==
    (ValidBuildInput /\ ~DistinctLabels) =>
        /\ result.kind = "ok"
        /\ \A i \in 1 .. data.n :
              /\ RowLabel(i) \in Range(result.value.keys)
              /\ DictGet(result.value, RowLabel(i)) = ClosedRow(LastRowOf(RowLabel(i)))
        /\ \A k \in 1 .. Len(result.value.keys) :
              \E i \in 1 .. data.n :
                 /\ RowLabel(i) = result.value.keys[k]
                 /\ result.value.val[k] = ClosedRow(i)

\* C3: the mapping create_data_structure returns for a dataset that passes
\* the validations has one entry per distinct label (one per row when the
\* labels are distinct), with the keys in the order of the labels' first
\* appearance.
C3_OneEntryPerLabel ==
    ValidBuildInput =>
        /\ result.kind = "ok"
        /\ Len(result.value.keys) = Cardinality({RowLabel(i) : i \in 1 .. data.n})
        /\ Range(result.value.keys) = {RowLabel(i) : i \in 1 .. data.n}
        /\ \A p, q \in 1 .. Len(result.value.keys) :
              p < q => FirstRowOf(result.value.keys[p]) < FirstRowOf(result.value.keys[q])

\* the error the validations report: data of zero rows (or, with
\* emptyIsNoAxis, of zero rows or zero columns) is the empty-data error;
\* otherwise an absent category column is the column-not-found error naming
\* it; otherwise the first absent name of value_columns, in list order, is the
\* column-not-found error naming it.  No mapping is returned in these cases.
ValidationDecides(isEmpty) ==
    IsBuild =>
        IF isEmpty THEN result = Raise("ValueError", "DATA_EMPTY", "")
        ELSE IF ~HasColumn(data, call.category)
        THEN result = Raise("ValueError", "COLUMN_NOT_FOUND", call.category)
        ELSE \A j \in 1 .. Len(call.values) :
                (/\ ~HasColumn(data, call.values[j])
                 /\ \A k \in 1 .. j - 1 : HasColumn(data, call.values[k]))
                => result = Raise("ValueError", "COLUMN_NOT_FOUND", call.values[j])

\* C4 as claimed: the first check is "the dataset has zero rows".
C4_ZeroRowsFirst == ValidationDecides(data.n = 0)

\* C4 as amended: the first check is "the dataset has zero rows or zero
\* columns" (DataFrame.empty); the order of the checks is as claimed.
C4_ValidationOrder == ValidationDecides(data.n = 0 \/ Len(data.columns) = 0)

C4_Witness ==
    /\ IsBuild
    /\ data.n > 0
    /\ data.columns = <<"Category">>
    /\ call.values = <<"V2", "V1">>
    /\ result = Raise("ValueError", "COLUMN_NOT_FOUND", "V2")

(* ----------------------- claims on the normaliser --------------------- *)

IsNorm == call.op = "normalize_minmax"

\* the columns the call rescales: all but the category column
ValCols == Range(data.columns) \ {call.category}

\* the dataset has the category column and only numeric value columns
NumericInput ==
    /\ HasColumn(data, call.category)
    /\ \A c \in ValCols : data.dtype[c] = "num"

DefaultRange == call.vmin = Rat(0) /\ call.vmax = Rat(1)

ValidRange == RLess(call.vmin, call.vmax)

In(c, i) == data.cell[c][i]

Out(c, i) == result.value.cell[c][i]

Rows == 1 .. data.n

InUnit(x) == RLeq(Rat(0), x) /\ RLeq(x, Rat(1))

\* the observed max of column c exceeds its observed min
Spread(c) == \E i, j \in Rows : RLess(In(c, i), In(c, j))

IsColMin(c, i) == \A j \in Rows : RLeq(In(c, i), In(c, j))

IsColMax(c, i) == \A j \in Rows : RLeq(In(c, j), In(c, i))

\* C5: with data_minmax = None and the default range, every value of a column
\* whose observed max exceeds its min lies in [0, 1], the column minimum maps
\* to 0 and the maximum to 1, and every value of a column whose max equals its
\* min is 0.5.
C5_DataDerivedUnit ==
    (IsNorm /\ call.data_minmax = <<>> /\ DefaultRange /\ NumericInput) =>
        /\ result.kind = "ok"
        /\ \A c \in ValCols :
              IF Spread(c)
              THEN \A i \in Rows :
                      /\ InUnit(Out(c, i))
                      /\ IsColMin(c, i) => Out(c, i) = Rat(0)
                      /\ IsColMax(c, i) => Out(c, i) = Rat(1)
              ELSE \A i \in Rows : Out(c, i) = Half

C5_Witness ==
    /\ IsNorm /\ call.data_minmax = <<>> /\ DefaultRange
    /\ data.columns = <<"Category", "V1", "V2">>
    /\ data.cell["V1"] = <<Rat(2), Rat(0)>>
    /\ data.cell["V2"] = <<Rat(1), Rat(1)>>
    /\ result.kind = "ok"
    /\ result.value.cell["V1"] = <<Rat(1), Rat(0)>>
    /\ result.value.cell["V2"] = <<Half, Half>>

\* C6: the scaling rule is picked by first match: when vmin < vmax and
\* (vmin, vmax) # (0, 1) every value x becomes (x - vmin) / (vmax - vmin)
\* whether or not bounds are supplied; with (0, 1) and bounds supplied the
\* bounds of the column are used; with (0, 1) and no bounds the column's own
\* min and max are used.
C6_FirstMatch ==
    (IsNorm /\ ValidRange /\ NumericInput) =>
        /\ result.kind = "ok"
        /\ \A c \in ValCols : \A i \in Rows :
              IF ~DefaultRange
              THEN Out(c, i) = RDiv(RSub(In(c, i), call.vmin),
                                    RSub(call.vmax, call.vmin))
              ELSE IF call.data_minmax # <<>>
              THEN LET b == call.data_minmax[1]
                   IN  (c \in DOMAIN b /\ RLess(b[c].min, b[c].max)) =>
                          Out(c, i) = RDiv(RSub(In(c, i), b[c].min),
                                           RSub(b[c].max, b[c].min))
              ELSE \A lo, hi \in Rows :
                      (IsColMin(c, lo) /\ IsColMax(c, hi) /\ Spread(c)) =>
                          Out(c, i) = RDiv(RSub(In(c, i), In(c, lo)),
                                           RSub(In(c, hi), In(c, lo)))

C6_Witness ==
    /\ IsNorm
    /\ call.vmin = Rat(1) /\ call.vmax = Rat(3)
    /\ call.data_minmax = <<[V1 |-> [min |-> Rat(0), max |-> Rat(2)]]>>
    /\ data.columns = <<"Category", "V1">>
    /\ data.cell["V1"] = <<Rat(0), Rat(1), Rat(2)>>
    /\ result.kind = "ok"
    /\ result.value.cell["V1"] = <<<<-1, 2>>, Rat(0), Half>>

\* C7: with the default range and supplied bounds, every value column c with
\* bounds is rescaled to (x - min) / (max - min) whenever bounds[c].max
\* differs from bounds[c].min, bounds with max < min included, and is set to
\* 0.5 exactly when bounds[c].max equals bounds[c].min.
C7_BoundsRescale ==
    (IsNorm /\ DefaultRange /\ call.data_minmax # <<>> /\ NumericInput) =>
        /\ result.kind = "ok"
        /\ LET b == call.data_minmax[1]
           IN  \A c \in ValCols \cap DOMAIN b : \A i \in Rows :
                  IF b[c].max # b[c].min
                  THEN Out(c, i) = RDiv(RSub(In(c, i), b[c].min),
                                        RSub(b[c].max, b[c].min))
                  ELSE Out(c, i) = Half

\* the returned dataset has the rows and the columns of the input, the
\* category column first
SameShape ==
    /\ result.value.n = data.n
    /\ Range(result.value.columns) = Range(data.columns)
    /\ Len(result.value.columns) = Len(data.columns)
    /\ result.value.columns[1] = call.category
    /\ \A c \in Range(data.columns) : Len(result.value.cell[c]) = data.n
    /\ result.value.cell[call.category] = data.cell[call.category]

\* C8 as claimed: a successful call with vmin < vmax returns a dataset of the
\* input's rows and columns whose value columns lie within [vmin, vmax].
C8_WithinTargetRange ==
    (IsNorm /\ result.kind = "ok") =>
        /\ ValidRange
        /\ SameShape
        /\ \A c \in ValCols : \A i \in Rows :
              RLeq(call.vmin, Out(c, i)) /\ RLeq(Out(c, i), call.vmax)

\* C8 as amended: a successful call with vmin < vmax returns a dataset of the
\* input's rows and columns; with the default range and no bounds every value
\* lies within [0, 1]; with a custom range the value computed from x lies
\* within [0, 1] exactly when vmin <= x <= vmax; with the default range and
\* bounds of max > min supplied for the column it lies within [0, 1] exactly
\* when min <= x <= max.
C8_ShapeAndUnitRange ==
    (IsNorm /\ result.kind = "ok") =>
        /\ ValidRange
        /\ SameShape
        /\ \A c \in ValCols : \A i \in Rows :
              /\ (DefaultRange /\ call.data_minmax = <<>>) => InUnit(Out(c, i))
              /\ ~DefaultRange =>
                    (InUnit(Out(c, i)) <=>
                        (RLeq(call.vmin, In(c, i)) /\ RLeq(In(c, i), call.vmax)))
              /\ (DefaultRange /\ call.data_minmax # <<>>) =>
                    LET b == call.data_minmax[1]
                    IN  (c \in DOMAIN b /\ RLess(b[c].min, b[c].max)) =>
                           (InUnit(Out(c, i)) <=>
                               (RLeq(b[c].min, In(c, i)) /\ RLeq(In(c, i), b[c].max)))

C8_Witness ==
    /\ IsNorm
    /\ call.vmin = Rat(1) /\ call.vmax = Rat(3)
    /\ call.data_minmax = <<>>
    /\ data.columns = <<"V2", "Category", "V1">>
    /\ data.cell["V1"] = <<Rat(2), Rat(0)>>
    /\ data.cell["V2"] = <<Rat(1), Rat(1)>>
    /\ result.kind = "ok"
    /\ result.value.columns = <<"Category", "V2", "V1">>
    /\ result.value.cell["V1"] = <<Half, <<-1, 2>>>>
    /\ result.value.cell["V2"] = <<Rat(0), Rat(0)>>

\* C9: every call with vmin >= vmax (vmin = vmax included) fails with the
\* invalid-range error whatever the dataset and the bounds are, a dataset with
\* a non-numeric column included, and returns no dataset.
C9_InvalidRangeFirst ==
    (IsNorm /\ ~ValidRange) => result = Raise("ValueError", "INVALID_VMIN_VMAX", "")

C9_Witness ==
    /\ IsNorm
    /\ call.vmin = Rat(1) /\ call.vmax = Rat(1)
    /\ data.columns = <<"Category", "V1">>
    /\ data.n = 2
    /\ data.dtype["V1"] = "obj"
    /\ result = Raise("ValueError", "INVALID_VMIN_VMAX", "")

\* C10: for vmin < vmax and a dataset holding the category column, the call
\* fails with the non-numeric-column error naming the first column other than
\* the category column, in column order, that is not numeric, in each of the
\* three scaling modes, and returns no dataset.
C10_NonNumericFirst ==
    (IsNorm /\ ValidRange /\ HasColumn(data, call.category)) =>
        \A p \in 1 .. Len(data.columns) :
           (/\ data.columns[p] # call.category
            /\ data.dtype[data.columns[p]] # "num"
            /\ \A q \in 1 .. p - 1 :
                  data.columns[q] = call.category \/ data.dtype[data.columns[q]] = "num")
           => result = Raise("ValueError", "NON_NUMERIC_COLUMN", data.columns[p])

C10_Witness ==
    /\ IsNorm
    /\ DefaultRange
    /\ call.data_minmax # <<>>
    /\ data.columns = <<"V2", "Category", "V1">>
    /\ data.n = 2
    /\ data.dtype["V1"] = "obj" /\ data.dtype["V2"] = "obj"
    /\ result = Raise("ValueError", "NON_NUMERIC_COLUMN", "V2")

IsAgain == call.op = "normalize_again"

\* C12: with the default range and data_minmax = None a second pass changes
\* nothing: on a column whose observed max exceeds its min the first output has
\* min 0 and max 1 and the second output equals the first; a column the first
\* pass set to 0.5 is 0.5 after the second.
C12_SecondPassFixed ==
    (IsAgain /\ call.data_minmax = <<>> /\ DefaultRange) =>
        /\ result.kind = "ok"
        /\ \A c \in ValCols :
              IF Spread(c)
              THEN /\ \E i \in Rows : call.first.cell[c][i] = Rat(0)
                   /\ \E i \in Rows : call.first.cell[c][i] = Rat(1)
                   /\ \A i \in Rows : Out(c, i) = call.first.cell[c][i]
              ELSE \A i \in Rows :
                      call.first.cell[c][i] = Half /\ Out(c, i) = Half

C12_Witness ==
    /\ IsAgain /\ call.data_minmax = <<>> /\ DefaultRange
    /\ data.columns = <<"V2", "Category", "V1">>
    /\ data.cell["V1"] = <<Rat(1), Rat(1)>>
    /\ data.cell["V2"] = <<Rat(2), Rat(0)>>
    /\ call.first.columns = <<"Category", "V2", "V1">>
    /\ result.kind = "ok"
    /\ result.value.cell["V1"] = <<Half, Half>>
    /\ result.value.cell["V2"] = <<Rat(1), Rat(0)>>

(* --------------------------- claims on get_minmax --------------------- *)

IsMinmax == call.op = "get_minmax"

SomeAbsent == \E j \in 1 .. Len(call.columns) : ~HasColumn(data, call.columns[j])

SomeNonNumeric ==
    \E j \in 1 .. Len(call.columns) : data.dtype[call.columns[j]] # "num"

\* the result is a mapping with one entry per requested column, in list order,
\* holding the smallest and the largest value of that column
EntryPerColumn ==
    /\ result.kind = "ok"
    /\ result.value.keys = call.columns
    /\ Len(result.value.val) = Len(call.columns)
    /\ \A j \in 1 .. Len(call.columns) :
          LET c == call.columns[j]
              e == result.value.val[j]
          IN  /\ \E i \in Rows : e.min = In(c, i) /\ IsColMin(c, i)
              /\ \E i \in Rows : e.max = In(c, i) /\ IsColMax(c, i)
              /\ RLeq(e.min, e.max)

MissingError ==
    /\ result.kind = "raise"
    /\ result.exc = "ValueError"
    /\ result.msg = "COLUMN_MISSING"

NonNumericError ==
    /\ result.kind = "raise"
    /\ result.exc = "ValueError"
    /\ result.msg = "NON_NUMERIC_COLUMN"

IsAngles == call.op = "create_angles"

IsYmax == call.op = "get_ymax_lim"

IsTicks == call.op = "get_yticks"

\* C14: create_angles fails with the too-few-axes error for every axis count
\* below 1 and returns no angle list then; for every axis count >= 1 it
\* succeeds.
C14_TooFewAxes ==
    IsAngles =>
        IF call.length < 1
        THEN result = Raise("ValueError", "LENGTH_INVALID", "")
        ELSE result.kind = "ok"

C14_Witness ==
    /\ IsAngles
    /\ call.length = 0
    /\ result = Raise("ValueError", "LENGTH_INVALID", "")

\* C15: for n >= 1 create_angles(n) has n + 1 elements, element i (from 0) is
\* 2*pi*i/n for i < n, so the first n angles start at 0, increase strictly, lie
\* in [0, 2*pi) and are 2*pi/n apart, and the last element equals the first.
C15_EvenAngles ==
    (IsAngles /\ call.length >= 1) =>
        LET n == call.length
            a == result.value
        IN  /\ result.kind = "ok"
            /\ Len(a) = n + 1
            /\ \A i \in 0 .. n - 1 : a[i + 1] = Reduce(2 * i, n)
            /\ a[1] = Rat(0)
            /\ \A i \in 1 .. n : RLeq(Rat(0), a[i]) /\ RLess(a[i], Rat(2))
            /\ \A i \in 1 .. n - 1 :
                  /\ RLess(a[i], a[i + 1])
                  /\ RSub(a[i + 1], a[i]) = Reduce(2, n)
            /\ a[n + 1] = a[1]

C15_Witness ==
    /\ IsAngles
    /\ call.length = 4
    /\ result = Ok(<<Rat(0), Half, Rat(1), <<3, 2>>, Rat(0)>>)

\* the radii of all series of the input mapping
AllRadii == UNION {Range(data.val[k]) : k \in 1 .. Len(data.val)}

\* C16: for a non-empty series mapping get_ymax_lim returns max(1, largest
\* radius): the result is at least 1, at least every radius, either 1 or one of
\* the radii, and 1 whenever every radius is at most 1.
C16_YmaxFloor ==
    (IsYmax /\ data.keys # <<>>) =>
        /\ result.kind = "ok"
        /\ RLeq(Rat(1), result.value)
        /\ \A r \in AllRadii : RLeq(r, result.value)
        /\ result.value = Rat(1) \/ result.value \in AllRadii
        /\ (\A r \in AllRadii : RLeq(r, Rat(1))) => result.value = Rat(1)

C16_Witness ==
    /\ IsYmax
    /\ data = [keys |-> <<"A", "B">>, val |-> <<<<Rat(-1)>>, <<Half, Rat(2)>>>>]
    /\ result = Ok(Rat(2))

\* C17: for ylim_max m >= 0 and circle k >= 1 get_yticks returns k ticks and k
\* labels; for k >= 2 tick i (from 0) is i*m/(k-1), so the first is 0, the last
\* is m and consecutive ticks are equally spaced; for k = 1 the tick is 0;
\* label i is the decimal string of the integer t with t <= tick i < t + 1.
C17_TicksAndLabels ==
    (IsTicks /\ RLeq(Rat(0), call.ylim_max) /\ call.circle >= 1) =>
        LET m == call.ylim_max
            k == call.circle
            ticks == result.value[1]
            labels == result.value[2]
        IN  /\ result.kind = "ok"
            /\ Len(ticks) = k
            /\ Len(labels) = k
            /\ k = 1 => ticks = <<Rat(0)>>
            /\ k >= 2 =>
                  /\ \A i \in 0 .. k - 1 :
                        ticks[i + 1] = Reduce(i * m[1], (k - 1) * m[2])
                  /\ ticks[1] = Rat(0)
                  /\ ticks[k] = m
                  /\ \A i \in 1 .. k - 1 :
                        RSub(ticks[i + 1], ticks[i]) = RDiv(m, Rat(k - 1))
            /\ \A i \in 1 .. k :
                  \E t \in 0 .. 99 :
                     /\ RLeq(Rat(t), ticks[i])
                     /\ RLess(ticks[i], Rat(t + 1))
                     /\ labels[i] = IntToStr(t)

C17_Witness ==
    /\ IsTicks
    /\ call.ylim_max = Rat(7)
    /\ call.circle = 5
    /\ result = Ok(<<<<Rat(0), <<7, 4>>, <<7, 2>>, <<21, 4>>, Rat(7)>>,
                     <<"0", "1", "3", "5", "7">>>>)

\* C18 as stated: get_ymax_lim fails with the empty-series error whenever the
\* mapping has no entries, and get_yticks fails with the too-few-ticks error
\* whenever the tick count is below 1.
C18_DegenerateRejected ==
    /\ (IsYmax /\ data.keys = <<>>) =>
          result = Raise("ValueError", "DATA_EMPTY", "")
    /\ (IsTicks /\ call.circle < 1) =>
          result = Raise("ValueError", "CIRCLE_COUNT_INVALID", "")

\* C18, amended: get_ymax_lim fails with the empty-series error whenever the
\* mapping has no entries; get_yticks fails with the negative-maximum error
\* whenever ylim_max is negative, whatever the tick count, and with the
\* too-few-ticks error whenever ylim_max is not negative and the tick count is
\* below 1.
C18_NegativeMaxFirst ==
    /\ (IsYmax /\ data.keys = <<>>) =>
          result = Raise("ValueError", "DATA_EMPTY", "")
    /\ (IsTicks /\ RLess(call.ylim_max, Rat(0))) =>
          result = Raise("ValueError", "YLIM_MAX_INVALID", "")
    /\ (IsTicks /\ ~RLess(call.ylim_max, Rat(0)) /\ call.circle < 1) =>
          result = Raise("ValueError", "CIRCLE_COUNT_INVALID", "")

C18_Witness ==
    /\ IsTicks
    /\ call.ylim_max = Rat(1)
    /\ call.circle = 0
    /\ result = Raise("ValueError", "CIRCLE_COUNT_INVALID", "")

(* ------------------------ claims on the pipeline ---------------------- *)

\* C19: whenever create_data_structure returns a series mapping for at least
\* one value column, every sequence of the mapping is as long as
\* create_angles(len(value_columns)), and draw_radar, given the mapping and
\* these angles, passes its length check and plots every entry.
C19_SeriesMatchAngles ==
    (IsBuild /\ result.kind = "ok" /\ Len(call.values) >= 1) =>
        LET angles == create_angles(Len(call.values))
        IN  /\ angles.kind = "ok"
            /\ \A k \in 1 .. Len(result.value.val) :
                  Len(result.value.val[k]) = Len(angles.value)
            /\ draw_radar(result.value, angles.value).kind = "ok"

C19_Witness ==
    /\ IsBuild
    /\ call.values = <<"V2", "V1">>
    /\ result.kind = "ok"
    /\ result.value.keys = <<"B", "A">>
    /\ Len(result.value.val[2]) = 3
    /\ Len(create_angles(2).value) = 3
    /\ Len(draw_radar(result.value, create_angles(2).value).value) = 2

(* --------------------------- claims on RadarChart --------------------- *)

IsChart == call.op = "RadarChart"

\* the names the chart needs that are no column of the dataset
AbsentColumns ==
    {c \in {call.category} \cup Range(call.values) : ~HasColumn(data, c)}

\* C20: constructing a RadarChart from data in which the category column or a
\* value column is absent raises DataValidationError with the missing-columns
\* message listing every absent column, also for a completely empty dataset:
\* neither the empty-data check nor the data processing comes first.
C20_MissingColumnsFirst ==
    (IsChart /\ AbsentColumns # {}) =>
        /\ result.kind = "raise"
        /\ result.exc = "DataValidationError"
        /\ result.msg = "COLUMN_MISSING"
        /\ Range(result.arg) = AbsentColumns

C20_Witness ==
    /\ IsChart
    /\ data.columns = <<>>
    /\ data.n = 0
    /\ call.values = <<"V1", "V2">>
    /\ result = Raise("DataValidationError", "COLUMN_MISSING",
                      <<"Category", "V1", "V2">>)

(* --------------------------- claims on ChartConfig -------------------- *)

IsNewConfig == call.op = "ChartConfig"

IsUpdate == call.op = "update"

\* c satisfies every validity constraint
ConfigValid(c) ==
    /\ c.figure_size[1] > 0
    /\ c.figure_size[2] > 0
    /\ RLeq(Rat(0), c.colors_alpha)
    /\ RLeq(c.colors_alpha, Rat(1))
    /\ c.legend_style \in {"bottom", "top"}
    /\ c.legend_col >= 1
    /\ c.marker_size >= 0
    /\ RLeq(Rat(0), c.line_width)
    /\ c.font_size >= 1

\* the keyword argument p gives its field a value that violates the field's
\* constraint
Violates(p) ==
    CASE p.key = "figure_size" -> p.value[1] <= 0 \/ p.value[2] <= 0
      [] p.key = "colors_alpha" -> RLess(p.value, Rat(0)) \/ RLess(Rat(1), p.value)
      [] p.key = "legend_style" -> p.value \notin {"bottom", "top"}
      [] p.key = "legend_col" -> p.value < 1
      [] p.key = "marker_size" -> p.value < 0
      [] p.key = "line_width" -> RLess(p.value, Rat(0))
      [] p.key = "font_size" -> p.value < 1
      [] OTHER -> FALSE

KwKeys == {call.kwargs[k].key : k \in 1 .. Len(call.kwargs)}

\* C21: a ChartConfig that is constructed satisfies every validity constraint
\* and holds the given values; constructing with a value that violates a
\* constraint raises ValueError and yields no config; the config constructed
\* without arguments holds the default values.
C21_ValidOnConstruction ==
    (IsNewConfig /\ KwKeys \subseteq ConfigFields) =>
        /\ result.kind = "ok" =>
              /\ ConfigValid(result.value)
              /\ self = result.value
              /\ \A k \in 1 .. Len(call.kwargs) :
                    self[call.kwargs[k].key] = call.kwargs[k].value
              /\ \A f \in ConfigFields \ KwKeys : self[f] = DefaultConfig[f]
        /\ (\E k \in 1 .. Len(call.kwargs) : Violates(call.kwargs[k])) =>
              /\ result.kind = "raise"
              /\ result.exc = "ValueError"
              /\ self = NoObject
        /\ call.kwargs = <<>> =>
              /\ result.kind = "ok"
              /\ self.figure_size = <<16, 6>>
              /\ self.colors_alpha = <<1, 5>>
              /\ self.line_width = Rat(1)
              /\ self.show_legend = TRUE
              /\ self.legend_style = "bottom"
              /\ self.legend_col = 2
              /\ self.title = <<>>
              /\ self.marker_size = 3
              /\ self.font_size = 12

C21_Witness ==
    /\ IsNewConfig
    /\ Len(call.kwargs) = 2
    /\ call.kwargs[1].key = "title"
    /\ call.kwargs[2].key = "colors_alpha"
    /\ call.kwargs[2].value = <<3, 2>>
    /\ result = Raise("ValueError", "INVALID_ALPHA", "")
    /\ self = NoObject

\* C22 as stated: update sets each named field to the given value and leaves
\* the fields not named unchanged; a name that is not a field raises ValueError
\* with the unknown-parameter message; after the assignments the config is
\* validated and ValueError is raised when it violates a constraint.
C22_UpdateSetsFields ==
    IsUpdate =>
        /\ KwKeys \subseteq ConfigFields =>
              /\ \A k \in 1 .. Len(call.kwargs) :
                    self[call.kwargs[k].key] = call.kwargs[k].value
              /\ \A f \in ConfigFields \ KwKeys : self[f] = call.before[f]
              /\ IF ConfigValid(self)
                 THEN result = Ok("None")
                 ELSE result.kind = "raise" /\ result.exc = "ValueError"
        /\ ~(KwKeys \subseteq ConfigFields) =>
              /\ result.kind = "raise"
              /\ result.exc = "ValueError"
              /\ result.msg = "INVALID_CONFIG_PARAM"

\* C27 as stated: the validity constraints hold after construction and after
\* every update, also one that raised, and an update that raised leaves every
\* field at the value it had before the call.
C27_ValidInEveryState ==
    self.class = "ChartConfig" =>
        /\ ConfigValid(self)
        /\ (IsUpdate /\ result.kind = "raise") => self = call.before

(* ------------------------------ claims on Theme ----------------------- *)

IsGetColor == call.op = "get_color"

\* the palette the call names
Palette == self.colors[call.palette]

\* p is index mod n: 0 <= p < n and index - p is a multiple of n
IsMod(p, index, n) ==
    /\ 0 <= p
    /\ p < n
    /\ \E q \in -(Abs(index) + 1) .. Abs(index) + 1 : index = q * n + p

\* the call returns the element of the palette at position index mod its
\* length
WrappedColor ==
    /\ result.kind = "ok"
    /\ \E p \in 0 .. Len(Palette) - 1 :
          IsMod(p, call.index, Len(Palette)) /\ result.value = Palette[p + 1]
    /\ result.value \in Range(Palette)

\* C23 as stated: for every integer index and each of the palette names
\* primary, secondary, accent get_color returns the element at position index
\* mod len(palette), a member of the palette; any other palette name raises
\* ValueError with the invalid-palette message naming it.
C23_ColorByIndex ==
    IsGetColor =>
        IF call.palette \in {"primary", "secondary", "accent"}
        THEN WrappedColor
        ELSE result = Raise("ValueError", "INVALID_PALETTE", call.palette)

\* C23, amended: the same for every palette that holds at least one colour; on
\* an empty palette (update_colors can set one) the call raises
\* ZeroDivisionError.
C23_NonEmptyPalette ==
    IsGetColor =>
        IF call.palette \notin {"primary", "secondary", "accent"}
        THEN result = Raise("ValueError", "INVALID_PALETTE", call.palette)
        ELSE IF Len(Palette) > 0
        THEN WrappedColor
        ELSE result.kind = "raise" /\ result.exc = "ZeroDivisionError"

C23_Witness ==
    /\ IsGetColor
    /\ call.index = -5
    /\ call.palette = "accent"
    /\ self.name = "dark"
    /\ Palette = <<"#111111", "#222222", "#333333">>
    /\ result = Ok("#222222")

(* -------------------------- claims on ChartFactory -------------------- *)

IsFactory == self.class = "ChartFactory"

IsCreate == call.op = "create"

\* C24: create raises ChartTypeError when the chart type (matched without
\* regard to case) is not registered and when the constructor of the
\* registered class raises; no exception of another type escapes create.
C24_OnlyChartTypeError ==
    IsCreate =>
        /\ ~is_supported(self, call.chart_type) =>
              result = Raise("ChartTypeError", "CHART_TYPE", call.chart_type)
        /\ result.kind = "raise" => result.exc = "ChartTypeError"

\* the class the calls log[1 .. k] leave registered under a name equal to
\* chart_type up to case: that of the last register among them that no later
\* unregister removed; <<>> when there is none
RECURSIVE LastRegistered(_, _, _)
LastRegistered(log, k, chart_type) ==
    IF k = 0 THEN <<>>
    ELSE IF Lower(log[k].chart_type) # Lower(chart_type)
    THEN LastRegistered(log, k - 1, chart_type)
    ELSE IF log[k].op = "register" THEN <<log[k].chart_class>>
    ELSE <<>>

\* C28: after any register and unregister calls, for every type name t,
\* is_supported(t) iff t lowercased is in get_available_types() iff
\* get_chart_class(t) is not None, and that class is the one of the most recent
\* register under a name equal up to case that no later unregister removed;
\* unregister of a name not registered changes nothing and raises nothing;
\* register of a class that is no Chart subclass raises ValueError and leaves
\* the registry as it was.
C28_RegistryConsistent ==
    IsFactory =>
        /\ \A t \in TypeArgs :
              /\ is_supported(self, t) <=> Lower(t) \in Range(get_available_types(self))
              /\ is_supported(self, t) <=> get_chart_class(self, t) # <<>>
              /\ get_chart_class(self, t) = LastRegistered(Log, Len(Log), t)
        /\ (call.op = "unregister" /\ ~is_supported(call.before, call.chart_type)) =>
              result = Ok("None") /\ self = call.before
        /\ (call.op = "register" /\ ~IsChartSubclass(call.chart_class)) =>
              /\ result.kind = "raise"
              /\ result.exc = "ValueError"
              /\ self = call.before

C28_Witness ==
    /\ IsFactory
    /\ call.op = "unregister"
    /\ call.chart_type = <<"B", "a", "r">>
    /\ Len(Log) = 3
    /\ Log[1].op = "register" /\ Log[1].chart_type = <<"R", "A", "D", "A", "R">>
    /\ Log[1].chart_class = "RadarChart"
    /\ Log[2].op = "register" /\ Log[2].chart_type = <<"r", "a", "d", "a", "r">>
    /\ Log[2].chart_class = "Chart"
    /\ get_chart_class(self, <<"R", "A", "D", "A", "R">>) = <<"Chart">>
    /\ get_available_types(self) = << <<"r", "a", "d", "a", "r">> >>

(* ----------------------- claims on _process_data ---------------------- *)

\* the chart's columns are present, so that _process_data is reached
ProcessReached == IsChart /\ AbsentColumns = {}

\* the dataset the series are built from: the first of scaled and data_minmax
\* that is given decides how the dataset is normalised, none leaves it raw
Normalised ==
    IF call.scaled # <<>>
    THEN normalize_minmax(data, call.category, call.data_minmax,
                          call.scaled[1][1], call.scaled[1][2])
    ELSE IF call.data_minmax # <<>>
    THEN normalize_minmax(data, call.category, call.data_minmax, Rat(0), Rat(1))
    ELSE Ok(data)

\* row i of df in the order of the chart's value columns
RowValues(df, i) == [j \in 1 .. Len(call.values) |-> df.cell[call.values[j]][i]]

\* C25: _process_data picks the mode by first match: scaled given -> normalised
\* with vmin = scaled[0], vmax = scaled[1] and data_minmax passed along; else
\* data_minmax given -> normalised with those bounds and the default range;
\* else the series are built from the raw dataset, whose values are the radii.
\* In every case the series hold the value columns only.
C25_ModeByFirstMatch ==
    ProcessReached =>
        IF Normalised.kind = "raise" THEN result = Normalised
        ELSE LET built == create_data_structure(Normalised.value, call.category,
                                                call.values)
             IN  IF built.kind = "raise" THEN result = built
                 ELSE /\ result.kind = "ok"
                      /\ result.value.processed_data = built.value
                      /\ \A k \in 1 .. Len(built.value.keys) :
                            LET s == result.value.processed_data.val[k]
                            IN  \E i \in 1 .. data.n :
                                   /\ SubSeq(s, 1, Len(call.values)) =
                                         RowValues(Normalised.value, i)
                                   /\ (call.scaled = <<>> /\ call.data_minmax = <<>>) =>
                                         SubSeq(s, 1, Len(call.values)) =
                                             RowValues(data, i)

C25_Witness ==
    /\ ProcessReached
    /\ call.scaled = <<<<Rat(0), Rat(2)>>>>
    /\ call.data_minmax # <<>>
    /\ call.data_minmax[1]["V1"].max = Rat(1)
    /\ call.values = <<"V1">>
    /\ data.columns = <<"Category", "V1">>
    /\ data.n = 1
    /\ data.cell["V1"] = <<Rat(2)>>
    /\ result.kind = "ok"
    /\ result.value.processed_data.val = <<<<Rat(1), Rat(1)>>>>

(* -------------------- claims on the chart's axis scaling -------------- *)

\* two outcomes agree: both raise, or both return the same value
Agree(a, b) == a.kind = b.kind /\ (a.kind = "ok" => a.value = b.value)

\* C30: RadarChart's private axis scaling agrees with the public scaler on
\* every input: _get_ymax_limit() returns what get_ymax_lim(processed_data)
\* returns, _get_yticks(m) returns the ticks and labels of
\* get_yticks(m, circle_count), and each pair fails on the same inputs.
C30_PrivateAgreesWithPublic ==
    /\ call.op = "_get_ymax_limit" => Agree(result, get_ymax_lim(data))
    /\ call.op = "_get_yticks" =>
          Agree(result, get_yticks(call.ylim_max, call.circle))

(* --------------------- claims on the life of a chart ------------------ *)

\* a chart has been constructed
IsLife == "processed_data" \in DOMAIN self

\* _process_data applied to the chart's data
Reprocessed(chart) ==
    ProcessData(chart.data, chart.category_column, chart.value_columns,
                chart.data_minmax, chart.scaled)

\* C26: after any update_data calls, also ones that raise, processed_data is
\* the result of processing data: a failed update_data leaves data and
\* processed_data as they were before the call, a successful one replaces both.
C26_ProcessedFollowsData ==
    IsLife =>
        /\ Reprocessed(self) = Ok(self.processed_data)
        /\ (call.op = "update_data" /\ result.kind = "raise") =>
              /\ self.data = call.before.data
              /\ self.processed_data = call.before.processed_data
        /\ (call.op = "update_data" /\ result.kind = "ok") =>
              /\ self.data = LifeFrames[call.arg]
              /\ Ok(self.processed_data) = Reprocessed(self)

\* the lines of the figure are the series of processed_data, in its order
DrawnFrom(figure, processed_data) ==
    /\ Len(figure.lines) = Len(processed_data.keys)
    /\ \A k \in 1 .. Len(figure.lines) :
          /\ figure.lines[k].label = processed_data.keys[k]
          /\ figure.lines[k].values = processed_data.val[k]

\* C29: fig and ax are None until the first plot; save and show call plot
\* exactly when fig is None; after a successful plot fig and ax are not None;
\* the figure save writes was drawn from the chart's current processed_data.
C29_FigureLifecycle ==
    IsLife =>
        /\ call.op \in {"RadarChart", "update_data"} =>
              /\ self.fig = (IF call.op = "RadarChart" THEN <<>> ELSE call.before.fig)
              /\ self.ax = (IF call.op = "RadarChart" THEN <<>> ELSE call.before.ax)
        /\ call.op \in {"save", "show"} =>
              (self.fig # call.before.fig <=> call.before.fig = <<>>)
        /\ (call.op = "plot" /\ result.kind = "ok") =>
              self.fig # <<>> /\ self.ax # <<>>
        /\ (call.op = "save" /\ call.out # <<>>) =>
              DrawnFrom(call.out[1], self.processed_data)

====
